---- MODULE Spec2Model ----
(***************************************************************************)
(* CloudLens frontend: token expiry checks and claim decoding, the edge     *)
(* routing middleware (frontend/middleware.ts), the tenant-scoped          *)
(* ApiClient (lib/api/client) and the EncryptionService (lib/encryption).  *)
(*                                                                         *)
(* Time is in seconds.  Date.now() is read once per synchronous segment of *)
(* a handler; the clock advances between segments (at awaits) and between  *)
(* operations.  The ApiClient is modelled in the browser, where            *)
(* `typeof window !== 'undefined'` holds.                                  *)
(***************************************************************************)
EXTENDS Integers, Sequences, FiniteSets, TLC

VARIABLES
    now,      \* Date.now() / 1000
    cookies,  \* the browser's cookie jar: cloudlens_access_token, _refresh_token, _user
    storage,  \* localStorage: the same three keys
    mw,       \* the middleware invocation being handled
    resp,     \* the NextResponse the middleware returned
    api,      \* the ApiClient.request call in progress
    tok,      \* one evaluation of an expiry check
    call,     \* one call of a helper and what it returned
    auth,     \* the AuthProvider: its React state, the page shown, the call in progress
    env,      \* process.env.ENCRYPTION_KEY
    encryptionService,  \* the module-level singleton of lib/encryption
    backend   \* the refresh tokens the backend accepts

vars == <<now, cookies, storage, mw, resp, api, tok, call, auth, env,
          encryptionService, backend>>

----------------------------------------------------------------------------
(* Bounds *)

MaxNow == 3     \* the clock takes the values 0, ClockStep, .., MaxNow * ClockStep
MaxExp == 2     \* exp claims take the values 0, ClockStep, .., MaxExp * ClockStep
MaxSegments == 3    \* a token has 1 .. MaxSegments dot-separated segments

----------------------------------------------------------------------------
(* Program constants *)

threshold == 5 * 60                    \* isTokenNearExpiry
AccessMaxAge == 30 * 60                \* maxAge of the access token cookie
RefreshMaxAge == 30 * 24 * 60 * 60     \* maxAge of the refresh token cookie

ClockStep == threshold                 \* granularity of the modelled clock

Times == {k * ClockStep : k \in 0..MaxNow}
ExpTimes == {k * ClockStep : k \in 0..MaxExp}

----------------------------------------------------------------------------
(* Tokens.  A token is the string "h.p.s"; what matters to the code is what *)
(* JSON.parse(atob(token.split('.')[1])) yields:                            *)
(*   undecodable  split/atob/JSON.parse throws                              *)
(*   null         the payload is the JSON value null (property read throws) *)
(*   noexp        the payload is an object without an exp field             *)
(*   strexp       the payload's exp is a non-numeric string                 *)
(*   num          the payload's exp is the number .exp                      *)
(* Absent stands for a missing cookie / storage key / header (and for the   *)
(* empty string, which is equally falsy).                                   *)

Absent == [kind |-> "absent", exp |-> 0]
Tok(k) == [kind |-> k, exp |-> 0]
NumTok(e) == [kind |-> "num", exp |-> e]

MalformedTokens == {Tok("undecodable"), Tok("null"), Tok("noexp"), Tok("strexp")}
NumTokens == {NumTok(e) : e \in ExpTimes}
Tokens == MalformedTokens \cup NumTokens

Truthy(t) == t.kind # "absent"

\* JSON.parse(atob(token.split('.')[1])) throws
DecodeThrows(token) == token.kind \in {"absent", "undecodable"}

\* payload.exp throws a TypeError (payload is null)
ExpReadThrows(token) == token.kind = "null"

\* JavaScript's `payload.exp < currentTime`: undefined and a non-numeric
\* string convert to NaN, and every comparison with NaN is false.
JsLess(token, n) == token.kind = "num" /\ token.exp < n

\* JavaScript's truthiness of payload.exp: undefined and 0 are falsy,
\* a non-empty string and a non-zero number are truthy.
ExpTruthy(token) ==
    \/ token.kind = "strexp"
    \/ token.kind = "num" /\ token.exp # 0

\* middleware.ts isTokenExpired
isTokenExpired(token, currentTime) ==
    IF DecodeThrows(token) \/ ExpReadThrows(token) THEN TRUE      \* catch
    ELSE JsLess(token, currentTime)

\* ApiClient.isTokenExpired
ApiIsTokenExpired(token, currentTime) ==
    IF DecodeThrows(token) \/ ExpReadThrows(token) THEN TRUE      \* catch
    ELSE JsLess(token, currentTime)

\* middleware.ts isTokenNearExpiry: payload.exp - currentTime < threshold
isTokenNearExpiry(token, currentTime) ==
    IF DecodeThrows(token) \/ ExpReadThrows(token) THEN TRUE      \* catch
    ELSE token.kind = "num" /\ token.exp - currentTime < threshold

\* An Authorization header: absent, or a string that does or does not start
\* with 'Bearer ' followed by a token.
NoHeader == [present |-> FALSE, bearer |-> FALSE, token |-> Absent]
AuthHeaders ==
    {NoHeader} \cup [present : {TRUE}, bearer : BOOLEAN, token : Tokens]

\* extractTokenPayload: TRUE when it returns the payload, FALSE when null.
extractTokenPayload(authHeader, currentTime) ==
    IF ~authHeader.present \/ ~authHeader.bearer THEN FALSE
    ELSE IF DecodeThrows(authHeader.token) \/ ExpReadThrows(authHeader.token)
         THEN FALSE                                                \* catch
    ELSE IF ExpTruthy(authHeader.token) /\ JsLess(authHeader.token, currentTime)
         THEN FALSE
    ELSE TRUE

----------------------------------------------------------------------------
(* The argument of the claim-decoding helpers, in the detail they read:    *)
(*   text      null, the empty string, or another string                   *)
(*   bearer    the string starts with 'Bearer '                            *)
(*   segments  the number of dot-separated segments of what follows        *)
(*   middle    what the second segment is: not base64, base64 of text that *)
(*             is not JSON, of the JSON value null, or of a JSON object    *)
(*   tenant, sub   the object has a non-empty tenant_id, sub               *)
(*   claims    the object's exp, as a token of the kinds above             *)

NullHeader ==
    [text |-> "null", bearer |-> FALSE, segments |-> 1, middle |-> "notBase64",
     tenant |-> FALSE, sub |-> FALSE, claims |-> Tok("noexp")]
EmptyHeader == [NullHeader EXCEPT !.text = "empty"]

HeaderStrings ==
    {NullHeader, EmptyHeader, [NullHeader EXCEPT !.text = "string"]} \cup
    [text : {"string"}, bearer : {TRUE}, segments : 1..MaxSegments,
     middle : {"notBase64", "notJson", "null", "object"},
     tenant : BOOLEAN, sub : BOOLEAN,
     claims : {Tok("noexp"), NumTok(ClockStep)}]

\* !authHeader || !authHeader.startsWith('Bearer ')
NotBearer(h) == h.text \in {"null", "empty"} \/ ~h.bearer

\* what JSON.parse(atob(token.split('.')[1])) meets: with one segment
\* split('.')[1] is undefined and atob throws
PayloadOf(h) ==
    IF h.segments < 2 \/ h.middle \in {"notBase64", "notJson"} THEN Tok("undecodable")
    ELSE IF h.middle = "null" THEN Tok("null")
    ELSE h.claims

\* the header as extractTokenPayload reads it
AuthHeaderOf(h) ==
    [present |-> h.text = "string", bearer |-> h.bearer,
     token |-> IF NotBearer(h) THEN Absent ELSE PayloadOf(h)]

\* Faulty variant: it decodes outside any try block.
extractTenantFromTokenUncaught(h) ==
    IF NotBearer(h) THEN "null"
    ELSE IF DecodeThrows(PayloadOf(h)) \/ ExpReadThrows(PayloadOf(h)) THEN "throw"
    ELSE IF h.tenant THEN "value" ELSE "null"

\* extractTenantFromToken: payload.tenant_id || null
extractTenantFromToken(h) ==
    IF NotBearer(h) THEN "null"
    ELSE IF DecodeThrows(PayloadOf(h)) \/ ExpReadThrows(PayloadOf(h)) THEN "null" \* catch
    ELSE IF h.tenant THEN "value" ELSE "null"

\* extractUserFromToken: payload.sub || null
extractUserFromToken(h) ==
    IF NotBearer(h) THEN "null"
    ELSE IF DecodeThrows(PayloadOf(h)) \/ ExpReadThrows(PayloadOf(h)) THEN "null" \* catch
    ELSE IF h.sub THEN "value" ELSE "null"

----------------------------------------------------------------------------
(* Pathnames.  A pathname is the sequence of its pieces, so that startsWith *)
(* and includes are computed on it as on the string.                        *)

P(name) == <<"/", name>>

publicRoutes == {P("signin"), P("signup"), P("forgot-password"), P("reset-password")}
authRoutes == {P("signin"), P("signup")}
protectedRoutes == {P("dashboard"), P("scans"), P("settings"), P("profile")}

\* the pathnames requests are made to
Pathnames ==
    {<<"/">>, P("signin"), P("signup"), P("forgot-password"), P("onboarding"),
     P("dashboard"), <<"/", "dashboard", "/", "x">>, <<"/", "dashboard", "x">>,
     <<"/", "dashboard", "/", "x", ".", "y">>,
     P("scans"), <<"/", "scans", "/", "x">>,
     <<"/", "_next", "/", "x">>, <<"/", "api", "/", "x">>, <<"/", "x", ".", "y">>}

startsWith(s, prefix) ==
    Len(s) >= Len(prefix) /\ SubSeq(s, 1, Len(prefix)) = prefix

includes(s, piece) == \E i \in 1..Len(s) : s[i] = piece

\* middleware: "Skip middleware for static files and API routes"
Skipped(pathname) ==
    \/ startsWith(pathname, <<"/", "_next", "/">>)
    \/ startsWith(pathname, <<"/", "api", "/">>)
    \/ includes(pathname, ".")

----------------------------------------------------------------------------
(* The cached user: the value of the cloudlens_user cookie / storage key.  *)
(*   absent   no cookie            garbage   JSON.parse throws             *)
(*   obj      a user object, written with camelCase or snake_case keys     *)
(* The id of a user object is a string; "U+7528" stands for an id holding  *)
(* a character above U+00FF, which is not a legal header value.            *)

\* A profile object is spelled in camelCase, in snake_case, or carries both
\* spellings of its keys.  `completed` is the value of its onboarding flag,
\* and of onboardingCompleted when it carries both; `snake` is then the value
\* of onboarding_completed.
UserIds == {"u1", "U+7528"}

NoUser == [kind |-> "absent", casing |-> "camel", completed |-> FALSE, snake |-> FALSE, id |-> ""]
GarbageUser == [kind |-> "garbage", casing |-> "camel", completed |-> FALSE, snake |-> FALSE, id |-> ""]
UserObjects ==
    [kind : {"obj"}, casing : {"camel", "snake"}, completed : BOOLEAN,
     snake : {FALSE}, id : UserIds]
Users == {NoUser, GarbageUser} \cup UserObjects

\* the values the cloudlens_user cookie takes
CookieUsers ==
    {NoUser, GarbageUser} \cup
    {u \in UserObjects :
        \/ u.id = "u1" /\ (u.casing = "camel" \/ u.completed)
        \/ u.id = "U+7528" /\ u.casing = "camel" /\ u.completed}

\* userDataCookie ? JSON.parse(userDataCookie) : null, null when it throws
ParseUser(u) == IF u.kind = "obj" THEN u ELSE NoUser

\* userData?.onboardingCompleted
onboardingCompleted(userData) ==
    /\ userData.kind = "obj"
    /\ userData.casing \in {"camel", "both"}
    /\ userData.completed

\* userData?.id || ''
UserIdOf(userData) == IF userData.kind = "obj" THEN userData.id ELSE ""

\* Headers.set(name, value) throws a TypeError when the value cannot be
\* converted to a ByteString.
HeaderSetThrows(value) == value = "U+7528"

\* userData?.tenantId || ''
TenantIdOf(userData) ==
    IF userData.kind = "obj" /\ userData.casing \in {"camel", "both"}
    THEN "t1" ELSE ""

----------------------------------------------------------------------------
(* The backend's answers to POST /auth/refresh.                            *)

NoAnswer == [kind |-> "none", access |-> Absent, refresh |-> Absent]

RefreshAnswers ==
    [kind : {"ok"}, access : NumTokens, refresh : {NumTok(MaxExp * ClockStep)}]
    \cup {[kind |-> k, access |-> Absent, refresh |-> Absent] :
             k \in {"okUnparsable", "notOk", "networkError"}}

\* An exception is raised while the answer is read: fetch rejects, or
\* response.json() rejects on a 2xx answer whose body is not JSON.
RefreshRaises(answer) == answer.kind \in {"networkError", "okUnparsable"}

\* what refreshTokens yields: the pair, null, or an exception
NullResult == [ok |-> FALSE, threw |-> FALSE, accessToken |-> Absent, refreshToken |-> Absent]
PairOf(answer) ==
    [ok |-> TRUE, threw |-> FALSE,
     accessToken |-> answer.access, refreshToken |-> answer.refresh]

\* Faulty variant: it returns the pair on every answer that carries a status.
refreshTokensAlways(answer) ==
    IF answer.kind # "networkError" THEN PairOf(answer) ELSE NullResult

\* middleware.ts refreshTokens: the pair, or null.  The fetch and the read of
\* the body are inside the try block.
refreshTokens(answer) ==
    IF RefreshRaises(answer) THEN NullResult                       \* catch
    ELSE IF answer.kind = "ok" THEN PairOf(answer)
    ELSE NullResult

----------------------------------------------------------------------------
(* Responses of the middleware.                                            *)

IdentityCookies == {"cloudlens_access_token", "cloudlens_refresh_token", "cloudlens_user"}

NoResp ==
    [kind |-> "none", to |-> <<>>, setAccess |-> Absent, setRefresh |-> Absent,
     accessMaxAge |-> 0, refreshMaxAge |-> 0, deleted |-> {},
     idHeaders |-> FALSE, xUserId |-> "", xTenantId |-> ""]

\* NextResponse.next()
PassThrough == [NoResp EXCEPT !.kind = "next"]

\* an exception leaves the middleware function: no response is returned
Threw == [NoResp EXCEPT !.kind = "throw"]

\* NextResponse.redirect(new URL(to, request.url))
RedirectTo(to) == [NoResp EXCEPT !.kind = "redirect", !.to = to]

\* response.cookies.delete of the three identity cookies
ClearIdentity(r) == [r EXCEPT !.deleted = IdentityCookies]

\* Faulty variant: it keeps the refresh token cookie it was sent.
RefreshedResponseStale(refreshed) ==
    [PassThrough EXCEPT !.setAccess = refreshed.accessToken,
                        !.accessMaxAge = AccessMaxAge]

\* middleware lines 88-107: pass through with the new pair in the cookies
RefreshedResponse(refreshed) ==
    [PassThrough EXCEPT !.setAccess = refreshed.accessToken,
                        !.accessMaxAge = AccessMaxAge,
                        !.setRefresh = refreshed.refreshToken,
                        !.refreshMaxAge = RefreshMaxAge]

\* middleware lines 108-115: refresh failed
RefreshFailedResponse == ClearIdentity(RedirectTo(P("signin")))

----------------------------------------------------------------------------
(* The middleware.                                                          *)

\* no helper has been called
NoCall == [fn |-> "none"]

MwIdle ==
    [pc |-> "idle", pathname |-> <<>>, accessToken |-> Absent,
     refreshToken |-> Absent, userCookie |-> NoUser, at |-> 0,
     isAuthenticated |-> FALSE, hasValidRefreshToken |-> FALSE,
     refreshCalls |-> 0, answer |-> NoAnswer, bg |-> FALSE]

\* request.cookies.get('cloudlens_access_token')?.value ||
\*     request.headers.get('authorization')?.replace('Bearer ', '')
AccessTokenOf(cookieValue, authorization) ==
    IF Truthy(cookieValue) THEN cookieValue ELSE authorization

\* Faulty variant: it redirects whoever is not authenticated, except on /signin.
UnauthenticatedGateStrict(pathname, isAuthenticated) ==
    ~isAuthenticated /\ pathname # P("signin")

\* Faulty variant: it protects only the listed pathnames.
UnauthenticatedGateListed(pathname, isAuthenticated) ==
    ~isAuthenticated /\ pathname \in protectedRoutes

\* middleware line 134: "Redirect unauthenticated users from protected routes"
UnauthenticatedGate(pathname, isAuthenticated) ==
    ~isAuthenticated /\
        (pathname \in protectedRoutes \/ startsWith(pathname, P("dashboard")))

\* Faulty variant: it sends every authenticated visitor of an auth page to /dashboard.
AuthPageTargetDashboard(userData) == P("dashboard")

\* middleware line 129: where an authenticated user on an auth page is sent
AuthPageTarget(userData) ==
    IF onboardingCompleted(userData) THEN P("dashboard") ELSE P("onboarding")

\* Faulty variant: it leaves out the second redirect.
OnboardingRedirectFirstOnly(pathname, userData) ==
    IF ~onboardingCompleted(userData) /\ pathname # P("onboarding")
           /\ pathname \notin publicRoutes
    THEN RedirectTo(P("onboarding"))
    ELSE NoResp

\* middleware lines 139-147: "Handle onboarding redirect"; NoResp when neither
\* redirect applies.  Called with a user object (userData is truthy).
OnboardingRedirect(pathname, userData) ==
    IF ~onboardingCompleted(userData) /\ pathname # P("onboarding")
           /\ pathname \notin publicRoutes
    THEN RedirectTo(P("onboarding"))
    ELSE IF onboardingCompleted(userData) /\ pathname = P("onboarding")
    THEN RedirectTo(P("dashboard"))
    ELSE NoResp

\* middleware line 154: the proactive refresh is fired
FiresBackgroundRefresh(accessToken, isAuthenticated, hasValidRefreshToken, t) ==
    /\ isAuthenticated /\ Truthy(accessToken)
    /\ isTokenNearExpiry(accessToken, t) /\ hasValidRefreshToken

\* middleware lines 118-169: what is returned when no refresh is awaited
Route(pathname, accessToken, refreshToken, userData, isAuthenticated, t) ==
    IF /\ Truthy(accessToken) /\ isTokenExpired(accessToken, t)
       /\ (~Truthy(refreshToken) \/ isTokenExpired(refreshToken, t))
    THEN ClearIdentity(IF pathname = P("signin") THEN PassThrough
                       ELSE RedirectTo(P("signin")))
    ELSE IF isAuthenticated /\ pathname \in authRoutes
    THEN RedirectTo(AuthPageTarget(userData))
    ELSE IF UnauthenticatedGate(pathname, isAuthenticated)
    THEN RedirectTo(P("signin"))
    ELSE IF /\ isAuthenticated /\ userData.kind = "obj"
            /\ OnboardingRedirect(pathname, userData).kind # "none"
    THEN OnboardingRedirect(pathname, userData)
    ELSE IF isAuthenticated /\ Truthy(accessToken)
    THEN IF HeaderSetThrows(UserIdOf(userData)) THEN Threw     \* line 165
         ELSE [PassThrough EXCEPT !.idHeaders = TRUE,
                                  !.xUserId = UserIdOf(userData),
                                  !.xTenantId = TenantIdOf(userData)]
    ELSE PassThrough

\* The browser stores the cookies the response sets and drops those it deletes.
ApplyResponse(jar, r) ==
    [access  |-> IF "cloudlens_access_token" \in r.deleted THEN Absent
                 ELSE IF Truthy(r.setAccess) THEN r.setAccess ELSE jar.access,
     refresh |-> IF "cloudlens_refresh_token" \in r.deleted THEN Absent
                 ELSE IF Truthy(r.setRefresh) THEN r.setRefresh ELSE jar.refresh,
     user    |-> IF "cloudlens_user" \in r.deleted THEN NoUser ELSE jar.user]

\* middleware lines 56-86 and, when no refresh is awaited, 118-169
MwRequest(pathname, authorization) ==
    /\ mw.pc # "refreshing"
    /\ LET accessToken == AccessTokenOf(cookies.access, authorization)
           refreshToken == cookies.refresh
           userData == ParseUser(cookies.user)
           isAuthenticated == Truthy(accessToken) /\ ~isTokenExpired(accessToken, now)
           hasValidRefreshToken ==
               Truthy(refreshToken) /\ ~isTokenExpired(refreshToken, now)
           seen == [MwIdle EXCEPT !.pathname = pathname,
                                  !.accessToken = accessToken,
                                  !.refreshToken = refreshToken,
                                  !.userCookie = cookies.user,
                                  !.at = now,
                                  !.bg = mw.bg]
       IN  IF Skipped(pathname)
           THEN /\ mw' = [seen EXCEPT !.pc = "done"]
                /\ resp' = PassThrough
                /\ cookies' = cookies
           ELSE IF ~isAuthenticated /\ hasValidRefreshToken
           THEN /\ mw' = [seen EXCEPT !.pc = "refreshing",
                                      !.isAuthenticated = isAuthenticated,
                                      !.hasValidRefreshToken = hasValidRefreshToken,
                                      !.refreshCalls = 1]
                /\ resp' = NoResp
                /\ cookies' = cookies
           ELSE LET r == Route(pathname, accessToken, refreshToken, userData,
                               isAuthenticated, now)
                IN  /\ mw' = [seen EXCEPT
                              !.pc = "done",
                              !.isAuthenticated = isAuthenticated,
                              !.hasValidRefreshToken = hasValidRefreshToken,
                              !.bg = mw.bg \/
                                  ((r.idHeaders \/ r.kind = "throw") /\
                                   FiresBackgroundRefresh(accessToken, isAuthenticated,
                                                          hasValidRefreshToken, now))]
                    /\ resp' = r
                    /\ cookies' = ApplyResponse(cookies, r)
    /\ call' = NoCall
    /\ UNCHANGED <<now, storage, api, tok, auth, env, encryptionService, backend>>

\* middleware lines 86-116: the awaited refreshTokens(refreshToken) returns
MwRefreshReturns(answer) ==
    /\ mw.pc = "refreshing"
    /\ LET refreshed == refreshTokens(answer)
           r == IF refreshed.threw THEN Threw
                ELSE IF refreshed.ok THEN RefreshedResponse(refreshed)
                ELSE RefreshFailedResponse
       IN  /\ mw' = [mw EXCEPT !.pc = "done", !.answer = answer]
           /\ resp' = r
           /\ cookies' = ApplyResponse(cookies, r)
    /\ UNCHANGED <<now, storage, api, tok, call, auth, env, encryptionService, backend>>

\* middleware lines 156-161: the background refresh completes; its result is
\* only logged.
MwBackgroundRefreshReturns(answer) ==
    /\ mw.bg
    /\ mw' = [mw EXCEPT !.bg = FALSE]
    /\ LET refreshed == refreshTokens(answer)
       IN  call' = [fn |-> "backgroundRefresh",
                    result |-> IF refreshed.ok THEN "pair" ELSE "absent",
                    accessToken |-> refreshed.accessToken,
                    refreshToken |-> refreshed.refreshToken]
    /\ UNCHANGED <<now, cookies, storage, resp, api, tok, auth, env, encryptionService, backend>>

\* time passes
Tick ==
    /\ now < MaxNow * ClockStep
    /\ now' = now + ClockStep
    /\ UNCHANGED <<cookies, storage, mw, resp, api, tok, call, auth, env, encryptionService, backend>>

----------------------------------------------------------------------------
(* The ApiClient.                                                           *)

NoStorage == [access |-> Absent, refresh |-> Absent, user |-> NoUser]

\* The backend's answers to a data request: fetch rejects (status 0), or a
\* status with a body that response.json() can or cannot parse.
NoData == [status |-> -1, json |-> FALSE]
NetworkError == [status |-> 0, json |-> FALSE]
DataAnswers == {NetworkError} \cup [status : {200, 401, 500}, json : BOOLEAN]

\* response.ok
Ok(answer) == answer.status \in 200..299

\* The answers to POST /auth/refresh as the ApiClient reads them: the pair and
\* the optional user.
ApiRefreshAnswers ==
    [kind : {"ok"}, access : NumTokens, refresh : {NumTok(MaxExp * ClockStep)},
     user : {NoUser, [kind |-> "obj", casing |-> "snake", completed |-> TRUE, snake |-> FALSE,
                      id |-> "u1"]}]
    \cup {[kind |-> k, access |-> Absent, refresh |-> Absent, user |-> NoUser] :
             k \in {"okUnparsable", "notOk", "networkError"}}

NoApiAnswer == [kind |-> "none", access |-> Absent, refresh |-> Absent, user |-> NoUser]

ApiIdle ==
    [pc |-> "idle", requireAuth |-> FALSE, sends |-> 0, refreshCalls |-> 0,
     headerRefreshCalls |-> 0, headerAnswer |-> NoApiAnswer,
     startExpired |-> FALSE, retryExpired |-> FALSE,
     first |-> NoData, retry |-> NoData, refreshed401 |-> "none",
     result |-> "none", hasData |-> FALSE, navigated |-> FALSE,
     authorization |-> Absent, tenantHeaders |-> FALSE]

\* ApiClient.clearAuthData
clearAuthData == NoStorage

\* ApiClient.refreshAccessToken, before the fetch: a usable refresh token
RefreshTokenUsable(st, t) ==
    Truthy(st.refresh) /\ ~ApiIsTokenExpired(st.refresh, t)

\* ApiClient.refreshAccessToken, after the fetch: the storage it leaves
RefreshStores(st, answer) ==
    IF answer.kind = "ok"
    THEN [access |-> answer.access, refresh |-> answer.refresh,
          user |-> IF answer.user.kind = "obj" THEN answer.user ELSE st.user]
    ELSE clearAuthData

\* Faulty variant: the read of the body is outside the try block.
refreshAccessTokenUncaught(st, t, answer) ==
    IF ~RefreshTokenUsable(st, t)
    THEN [result |-> "false", fetched |-> FALSE, storage |-> clearAuthData]
    ELSE IF RefreshRaises(answer)
    THEN IF answer.kind = "networkError"
         THEN [result |-> "false", fetched |-> TRUE, storage |-> clearAuthData]
         ELSE [result |-> "throw", fetched |-> TRUE, storage |-> st]
    ELSE [result |-> IF answer.kind = "ok" THEN "true" ELSE "false",
          fetched |-> TRUE, storage |-> RefreshStores(st, answer)]

\* ApiClient.refreshAccessToken: true with the pair stored, or false with
\* the three keys cleared.  The fetch, the read of the body and the writes
\* are inside the try block.
refreshAccessToken(st, t, answer) ==
    IF ~RefreshTokenUsable(st, t)
    THEN [result |-> "false", fetched |-> FALSE, storage |-> clearAuthData]
    ELSE IF RefreshRaises(answer)
    THEN [result |-> "false", fetched |-> TRUE, storage |-> clearAuthData]  \* catch
    ELSE [result |-> IF answer.kind = "ok" THEN "true" ELSE "false",
          fetched |-> TRUE, storage |-> RefreshStores(st, answer)]

\* Faulty variant: without a usable refresh token it sends the expired token.
GetHeadersKeepsStale(st, t) ==
    LET tenant == ParseUser(st.user).kind = "obj"
        expired == Truthy(st.access) /\ ApiIsTokenExpired(st.access, t)
    IN  IF expired /\ RefreshTokenUsable(st, t)
        THEN [wait |-> TRUE, expired |-> TRUE, storage |-> st,
              authorization |-> Absent, tenantHeaders |-> tenant]
        ELSE [wait |-> FALSE, expired |-> expired, storage |-> st,
              authorization |-> st.access, tenantHeaders |-> tenant]

\* ApiClient.getHeaders up to its first await: it either needs the network
\* (wait) or has the headers.  userData is read before any refresh.
GetHeaders(st, t) ==
    LET tenant == ParseUser(st.user).kind = "obj"
        expired == Truthy(st.access) /\ ApiIsTokenExpired(st.access, t)
    IN  IF expired /\ RefreshTokenUsable(st, t)
        THEN [wait |-> TRUE, expired |-> TRUE, storage |-> st,
              authorization |-> Absent, tenantHeaders |-> tenant]
        ELSE IF expired
        THEN [wait |-> FALSE, expired |-> TRUE, storage |-> clearAuthData,
              authorization |-> Absent, tenantHeaders |-> tenant]
        ELSE [wait |-> FALSE, expired |-> FALSE, storage |-> st,
              authorization |-> st.access, tenantHeaders |-> tenant]

\* request line 770: throw new Error('Authentication required')
MissingTokenResult == "throw"

\* request lines 764-788: the check, the headers, and the first fetch issued
ApiRequest(requireAuth) ==
    /\ api.pc \in {"idle", "done"}
    /\ IF requireAuth /\ ~Truthy(storage.access)
       THEN /\ api' = [ApiIdle EXCEPT !.pc = "done", !.requireAuth = requireAuth,
                                      !.result = MissingTokenResult]
            /\ storage' = storage
       ELSE LET h == GetHeaders(storage, now)
                a == [ApiIdle EXCEPT !.requireAuth = requireAuth,
                                     !.startExpired = h.expired,
                                     !.tenantHeaders = h.tenantHeaders]
            IN  IF h.wait
                THEN /\ api' = [a EXCEPT !.pc = "headerRefresh",
                                         !.refreshCalls = 1,
                                         !.headerRefreshCalls = 1]
                     /\ storage' = storage
                ELSE /\ api' = [a EXCEPT !.pc = "send", !.sends = 1,
                                         !.authorization = h.authorization]
                     /\ storage' = h.storage
    /\ UNCHANGED <<now, cookies, mw, resp, tok, call, auth, env, encryptionService, backend>>

\* getHeaders lines 726-751 after the awaited refresh, then the fetch issued
\* (the first send, or the retry)
ApiHeaderRefreshReturns(answer) ==
    /\ api.pc \in {"headerRefresh", "retryHeaderRefresh"}
    /\ storage' = RefreshStores(storage, answer)
    /\ api' = [api EXCEPT
               !.pc = IF api.pc = "headerRefresh" THEN "send" ELSE "retrySend",
               !.sends = @ + 1,
               !.headerAnswer = answer,
               !.authorization = IF answer.kind = "ok" THEN storage'.access
                                 ELSE Absent]
    /\ UNCHANGED <<now, cookies, mw, resp, tok, call, auth, env, encryptionService, backend>>

\* request lines 812-823: clear, navigate to /signin, structured failure
SignedOut(a) ==
    [a EXCEPT !.pc = "done", !.result = "failure", !.hasData = TRUE,
              !.navigated = TRUE]

\* request lines 827-833: the catch block
Caught(a) == [a EXCEPT !.pc = "done", !.result = "failure", !.hasData = FALSE]

\* request line 795: a 401 is answered by a refresh when requireAuth
RetryAllowed(requireAuth) == requireAuth

\* request lines 788-826: the first fetch settles
ApiSendReturns(answer) ==
    /\ api.pc = "send"
    /\ LET a == [api EXCEPT !.first = answer]
       IN  IF answer = NetworkError \/ ~answer.json
           THEN api' = Caught(a) /\ storage' = storage
           ELSE IF Ok(answer)
           THEN /\ api' = [a EXCEPT !.pc = "done", !.result = "success",
                                    !.hasData = TRUE]
                /\ storage' = storage
           ELSE IF answer.status = 401
           THEN IF RetryAllowed(api.requireAuth) /\ RefreshTokenUsable(storage, now)
                THEN /\ api' = [a EXCEPT !.pc = "refresh401",
                                         !.refreshCalls = @ + 1]
                     /\ storage' = storage
                ELSE /\ api' = SignedOut(
                                [a EXCEPT !.refreshed401 =
                                     IF RetryAllowed(api.requireAuth)
                                     THEN "noToken" ELSE "none"])
                     /\ storage' = clearAuthData
           ELSE /\ api' = [a EXCEPT !.pc = "done", !.result = "failure",
                                    !.hasData = TRUE]
                /\ storage' = storage
    /\ UNCHANGED <<now, cookies, mw, resp, tok, call, auth, env, encryptionService, backend>>

\* request lines 796-803: the refresh after a 401 settles; on success the
\* headers are rebuilt and the retry is issued
ApiRefresh401Returns(answer) ==
    /\ api.pc = "refresh401"
    /\ LET st == RefreshStores(storage, answer)
           a == [api EXCEPT !.refreshed401 = answer.kind]
           h == GetHeaders(st, now)
       IN  IF answer.kind # "ok"
           THEN api' = SignedOut(a) /\ storage' = clearAuthData
           ELSE IF h.wait
           THEN /\ api' = [a EXCEPT !.pc = "retryHeaderRefresh",
                                    !.retryExpired = TRUE,
                                    !.refreshCalls = @ + 1,
                                    !.headerRefreshCalls = @ + 1,
                                    !.tenantHeaders = h.tenantHeaders]
                /\ storage' = st
           ELSE /\ api' = [a EXCEPT !.pc = "retrySend", !.sends = @ + 1,
                                    !.retryExpired = h.expired,
                                    !.authorization = h.authorization,
                                    !.tenantHeaders = h.tenantHeaders]
                /\ storage' = h.storage
    /\ UNCHANGED <<now, cookies, mw, resp, tok, call, auth, env, encryptionService, backend>>

\* Faulty variant: it falls through to the sign-out after a successful retry.
RetrySucceedsNever(answer) == FALSE

\* request line 806: if (retryResponse.ok) return { success: true, .. }
RetrySucceeds(answer) == Ok(answer)

\* request lines 800-823: the retry settles
ApiRetryReturns(answer) ==
    /\ api.pc = "retrySend"
    /\ LET a == [api EXCEPT !.retry = answer]
       IN  IF answer = NetworkError \/ ~answer.json
           THEN api' = Caught(a) /\ storage' = storage
           ELSE IF RetrySucceeds(answer)
           THEN /\ api' = [a EXCEPT !.pc = "done", !.result = "success",
                                    !.hasData = TRUE]
                /\ storage' = storage
           ELSE api' = SignedOut(a) /\ storage' = clearAuthData
    /\ UNCHANGED <<now, cookies, mw, resp, tok, call, auth, env, encryptionService, backend>>

----------------------------------------------------------------------------
(* The EncryptionService (lib/encryption).                                  *)
(*                                                                         *)
(* A JavaScript string is the sequence of its UTF-16 code units, a Buffer  *)
(* the sequence of its bytes, and a base64 string the sequence of its      *)
(* characters: 0..63 for the alphabet, PadChar for '=' and IllegalChar for *)
(* a character outside the alphabet.  The block cipher itself belongs to   *)
(* the crypto library; AesBlock stands for it as a keyed bijection on      *)
(* 16-byte blocks, and the CBC chaining, the PKCS#7 padding and the length *)
(* checks of createCipheriv / final() are those of the library.            *)

BlockSize == 16     \* bytes of an AES block and of the IV
KeyLength == 32     \* bytes of an AES-256 key
PadChar == 64
IllegalChar == 65
ReplacementChar == 65533    \* U+FFFD
Surrogates == 55296..57343  \* U+D800 .. U+DFFF

Min(a, b) == IF a < b THEN a ELSE b
Drop(q, n) == SubSeq(q, n + 1, Len(q))
Take(q, n) == SubSeq(q, 1, Min(n, Len(q)))
Repeat(x, n) == [i \in 1..n |-> x]

RECURSIVE XorBits(_, _, _)
XorBits(a, b, n) ==
    IF n = 0 THEN 0
    ELSE (((a % 2) + (b % 2)) % 2) + 2 * XorBits(a \div 2, b \div 2, n - 1)

\* a ^ b on bytes
Xor(a, b) == XorBits(a, b, 8)
XorSeq(x, y) == [i \in 1..Len(x) |-> Xor(x[i], y[i])]

\* the UTF-8 bytes of one code unit; an unpaired surrogate is written as
\* U+FFFD (surrogate pairs are not among the modelled strings)
Utf8Unit(c) ==
    IF c < 128 THEN <<c>>
    ELSE IF c < 2048 THEN <<192 + (c \div 64), 128 + (c % 64)>>
    ELSE IF c \in Surrogates THEN <<239, 191, 189>>
    ELSE <<224 + (c \div 4096), 128 + ((c \div 64) % 64), 128 + (c % 64)>>

\* Buffer.from(string, 'utf8')
RECURSIVE Utf8Encode(_)
Utf8Encode(str) ==
    IF str = <<>> THEN <<>> ELSE Utf8Unit(Head(str)) \o Utf8Encode(Tail(str))

Continuation(b) == b \in 128..191

\* buffer.toString('utf8'): every byte that does not start a well-formed
\* sequence becomes U+FFFD
RECURSIVE Utf8Decode(_)
Utf8Decode(b) ==
    IF b = <<>> THEN <<>>
    ELSE IF b[1] < 128 THEN <<b[1]>> \o Utf8Decode(Tail(b))
    ELSE IF b[1] \in 194..223 /\ Len(b) >= 2 /\ Continuation(b[2])
    THEN <<((b[1] - 192) * 64) + (b[2] - 128)>> \o Utf8Decode(Drop(b, 2))
    ELSE IF /\ b[1] \in 224..239 /\ Len(b) >= 3
            /\ Continuation(b[2]) /\ Continuation(b[3])
            /\ LET c == ((b[1] - 224) * 4096) + ((b[2] - 128) * 64) + (b[3] - 128)
               IN  c >= 2048 /\ c \notin Surrogates
    THEN <<((b[1] - 224) * 4096) + ((b[2] - 128) * 64) + (b[3] - 128)>>
             \o Utf8Decode(Drop(b, 3))
    ELSE <<ReplacementChar>> \o Utf8Decode(Tail(b))

\* buffer.toString('base64')
RECURSIVE Base64Encode(_)
Base64Encode(b) ==
    IF b = <<>> THEN <<>>
    ELSE IF Len(b) = 1
    THEN <<b[1] \div 4, (b[1] % 4) * 16, PadChar, PadChar>>
    ELSE IF Len(b) = 2
    THEN <<b[1] \div 4, ((b[1] % 4) * 16) + (b[2] \div 16), (b[2] % 16) * 4, PadChar>>
    ELSE <<b[1] \div 4, ((b[1] % 4) * 16) + (b[2] \div 16),
           ((b[2] % 16) * 4) + (b[3] \div 64), b[3] % 64>>
             \o Base64Encode(Drop(b, 3))

\* Buffer.from(string, 'base64') never throws: characters outside the
\* alphabet are skipped and decoding stops at the first '='
RECURSIVE Sextets(_)
Sextets(str) ==
    IF str = <<>> \/ Head(str) = PadChar THEN <<>>
    ELSE IF Head(str) = IllegalChar THEN Sextets(Tail(str))
    ELSE <<Head(str)>> \o Sextets(Tail(str))

RECURSIVE FromSextets(_)
FromSextets(x) ==
    IF Len(x) < 2 THEN <<>>
    ELSE IF Len(x) = 2 THEN <<(x[1] * 4) + (x[2] \div 16)>>
    ELSE IF Len(x) = 3
    THEN <<(x[1] * 4) + (x[2] \div 16), ((x[2] % 16) * 16) + (x[3] \div 4)>>
    ELSE <<(x[1] * 4) + (x[2] \div 16), ((x[2] % 16) * 16) + (x[3] \div 4),
           ((x[3] % 4) * 64) + x[4]>> \o FromSextets(Drop(x, 4))

Base64Decode(str) == FromSextets(Sextets(str))

\* the block cipher under a 32-byte key, and its inverse
AesBlock(key, block) ==
    [i \in 1..BlockSize |->
        (block[(i % BlockSize) + 1] + key[i] + key[i + BlockSize]) % 256]
AesBlockInverse(key, block) ==
    [j \in 1..BlockSize |->
        LET i == ((j + BlockSize - 2) % BlockSize) + 1
        IN  (block[i] + 512 - key[i] - key[i + BlockSize]) % 256]

\* PKCS#7 padding, added by cipher.final() and checked by decipher.final()
Pkcs7Pad(b) ==
    LET n == BlockSize - (Len(b) % BlockSize) IN b \o Repeat(n, n)
Pkcs7Valid(b) ==
    /\ Len(b) >= BlockSize
    /\ LET n == b[Len(b)]
       IN  /\ n \in 1..BlockSize
           /\ \A i \in (Len(b) - n + 1)..Len(b) : b[i] = n
Pkcs7Strip(b) == SubSeq(b, 1, Len(b) - b[Len(b)])

\* CBC chaining over whole blocks
RECURSIVE CbcEncrypt(_, _, _)
CbcEncrypt(key, prev, data) ==
    IF data = <<>> THEN <<>>
    ELSE LET c == AesBlock(key, XorSeq(Take(data, BlockSize), prev))
         IN  c \o CbcEncrypt(key, c, Drop(data, BlockSize))

RECURSIVE CbcDecrypt(_, _, _)
CbcDecrypt(key, prev, data) ==
    IF data = <<>> THEN <<>>
    ELSE LET c == Take(data, BlockSize)
         IN  XorSeq(AesBlockInverse(key, c), prev)
                 \o CbcDecrypt(key, c, Drop(data, BlockSize))

\* createCipheriv / createDecipheriv throw on a key that is not 32 bytes or
\* an IV that is not 16 bytes
CreateThrows(key, iv) == Len(key) # KeyLength \/ Len(iv) # BlockSize

\* prepareKey: pad to 32 code units with '0', or cut to 32 code units, then
\* encode as UTF-8
prepareKey(key) ==
    Utf8Encode(IF Len(key) < 32 THEN key \o Repeat(48, 32 - Len(key))
               ELSE IF Len(key) > 32 THEN SubSeq(key, 1, 32)
               ELSE key)

Failed == [threw |-> TRUE, value |-> <<>>]
Returned(v) == [threw |-> FALSE, value |-> v]

\* EncryptionService.encrypt with the IV that randomBytes(16) drew
encrypt(keyBuffer, plaintext, iv) ==
    IF plaintext = <<>> THEN Returned(<<>>)
    ELSE IF CreateThrows(keyBuffer, iv) THEN Failed
    ELSE Returned(Base64Encode(
             iv \o CbcEncrypt(keyBuffer, iv, Pkcs7Pad(Utf8Encode(plaintext)))))

\* EncryptionService.decrypt
decrypt(keyBuffer, encryptedData) ==
    IF encryptedData = <<>> THEN Returned(<<>>)
    ELSE LET combined == Base64Decode(encryptedData)
             iv == Take(combined, 16)
             encrypted == Drop(combined, Len(iv))
         IN  IF CreateThrows(keyBuffer, iv) THEN Failed
             ELSE IF encrypted = <<>> \/ Len(encrypted) % BlockSize # 0
             THEN Failed                          \* wrong final block length
             ELSE IF ~Pkcs7Valid(CbcDecrypt(keyBuffer, iv, encrypted))
             THEN Failed                          \* bad decrypt
             ELSE Returned(Utf8Decode(
                      Pkcs7Strip(CbcDecrypt(keyBuffer, iv, encrypted))))

\* JavaScript values: undefined, or a string
Undefined == [type |-> "undefined", value |-> <<>>]
Str(v) == [type |-> "string", value |-> v]
JsTruthy(x) == x.type = "string" /\ x.value # <<>>

\* EncryptionService.encryptAWSCredentials: the object literal it returns,
\* whose keys are the fields of `object`
encryptAWSCredentials(keyBuffer, accessKey, secretKey, sessionToken, ivs) ==
    LET a == encrypt(keyBuffer, accessKey, ivs[1])
        b == encrypt(keyBuffer, secretKey, ivs[2])
        c == IF JsTruthy(sessionToken)
             THEN encrypt(keyBuffer, sessionToken.value, ivs[3])
             ELSE Returned(<<>>)
    IN  IF a.threw \/ b.threw \/ c.threw
        THEN [threw |-> TRUE, object |-> [failed |-> Undefined]]
        ELSE [threw |-> FALSE,
              object |-> [encrypted_aws_access_key |-> Str(a.value),
                          encrypted_aws_secret_key |-> Str(b.value),
                          encrypted_aws_session_token |->
                              IF JsTruthy(sessionToken) THEN Str(c.value)
                              ELSE Undefined]]

\* scans/start route: the credential fields of the body sent to the backend
scanRequest(encryptedCredentials) ==
    IF /\ "encrypted_aws_session_token" \in DOMAIN encryptedCredentials
       /\ JsTruthy(encryptedCredentials.encrypted_aws_session_token)
    THEN [encrypted_aws_access_key |-> encryptedCredentials.encrypted_aws_access_key,
          encrypted_aws_secret_key |-> encryptedCredentials.encrypted_aws_secret_key,
          encrypted_aws_session_token |->
              encryptedCredentials.encrypted_aws_session_token]
    ELSE [encrypted_aws_access_key |-> encryptedCredentials.encrypted_aws_access_key,
          encrypted_aws_secret_key |-> encryptedCredentials.encrypted_aws_secret_key]

\* the configured secrets: shorter than, exactly, and longer than 32
\* characters, and one holding a character outside ASCII
Secrets == {<<107>>, Repeat(107, 32), Repeat(107, 33), <<233>>}

\* the plaintexts: empty, one character (ASCII, two-byte, an unpaired
\* surrogate), and around the block length
Plaintexts ==
    {<<>>, <<97>>, <<233>>, <<55296>>,
     Repeat(97, BlockSize - 1), Repeat(97, BlockSize), Repeat(97, BlockSize + 1)}

\* the values randomBytes(16) draws
Ivs == {Repeat(0, BlockSize), [i \in 1..BlockSize |-> 16 * i - 1]}

\* what can happen to a ciphertext between encrypt and decrypt
TamperKinds == {"short", "truncated", "badPadding", "illegalChar", "ivBit"}

Tampered(c, kind) ==
    LET blob == Base64Decode(c.data)
        bytes == Utf8Encode(c.plaintext)
    IN  CASE kind = "short" -> Base64Encode(Take(blob, BlockSize - 1))
          [] kind = "truncated" -> Base64Encode(Take(blob, Len(blob) - 1))
          [] kind = "illegalChar" -> c.data \o <<IllegalChar>>
          [] kind = "ivBit" -> Base64Encode(<<Xor(blob[1], 1)>> \o Tail(blob))
          [] kind = "badPadding" ->
                 Base64Encode(c.iv \o CbcEncrypt(c.keyBuffer, c.iv,
                     bytes \o Repeat(0, BlockSize - (Len(bytes) % BlockSize))))

CipherIdle ==
    [fn |-> "EncryptionService", secret |-> <<>>, keyBuffer |-> <<>>,
     plaintext |-> <<>>, iv |-> <<>>, data |-> <<>>, tamper |-> "none",
     threw |-> FALSE, text |-> <<>>]

CipherFns == {"EncryptionService", "encrypt", "decrypt", "encryptAWSCredentials"}

\* new EncryptionService(encryptionKey)
NewService(encryptionKey) ==
    /\ call.fn = "none"
    /\ call' = [CipherIdle EXCEPT !.secret = encryptionKey,
                                  !.keyBuffer = prepareKey(encryptionKey)]
    /\ UNCHANGED <<now, cookies, storage, mw, resp, api, tok, auth, env, encryptionService, backend>>

\* service.encrypt(plaintext), randomBytes drawing iv
Encrypt(plaintext, iv) ==
    /\ call.fn \in CipherFns
    /\ LET r == encrypt(call.keyBuffer, plaintext, iv)
       IN  call' = [CipherIdle EXCEPT !.fn = "encrypt",
                                     !.secret = call.secret,
                                     !.keyBuffer = call.keyBuffer,
                                     !.plaintext = plaintext, !.iv = iv,
                                     !.threw = r.threw, !.data = r.value]
    /\ UNCHANGED <<now, cookies, storage, mw, resp, api, tok, auth, env, encryptionService, backend>>

\* the ciphertext is damaged on its way
Tamper(kind) ==
    /\ call.fn = "encrypt" /\ ~call.threw /\ call.data # <<>>
    /\ call.tamper = "none"
    /\ call' = [call EXCEPT !.tamper = kind, !.data = Tampered(call, kind)]
    /\ UNCHANGED <<now, cookies, storage, mw, resp, api, tok, auth, env, encryptionService, backend>>

\* service.decrypt(data) of the ciphertext at hand
Decrypt ==
    /\ call.fn = "encrypt"
    /\ LET r == decrypt(call.keyBuffer, call.data)
       IN  call' = [call EXCEPT !.fn = "decrypt", !.threw = call.threw \/ r.threw,
                                !.text = r.value]
    /\ UNCHANGED <<now, cookies, storage, mw, resp, api, tok, auth, env, encryptionService, backend>>

\* service.encryptAWSCredentials(accessKey, secretKey, sessionToken) and the
\* body the scans/start route builds from its result
EncryptCredentials(accessKey, secretKey, sessionToken, ivs) ==
    /\ call.fn \in CipherFns
    /\ LET r == encryptAWSCredentials(call.keyBuffer, accessKey, secretKey,
                                      sessionToken, ivs)
       IN  call' = [fn |-> "encryptAWSCredentials", secret |-> call.secret,
                    keyBuffer |-> call.keyBuffer, sessionToken |-> sessionToken,
                    threw |-> r.threw, object |-> r.object,
                    body |-> IF r.threw THEN r.object ELSE scanRequest(r.object)]
    /\ UNCHANGED <<now, cookies, storage, mw, resp, api, tok, auth, env, encryptionService, backend>>

----------------------------------------------------------------------------
(* The module-level singleton of lib/encryption.                           *)

\* `let encryptionService = null`; an instance carries the serial number of
\* the construction that made it
NoService == [made |-> FALSE, secret |-> <<>>, keyBuffer |-> <<>>, serial |-> 0]

\* the values process.env.ENCRYPTION_KEY takes
EnvValues == {Undefined, Str(<<>>)} \cup {Str(s) : s \in Secrets}

\* Faulty variant: it constructs a new instance at every call.
getEncryptionServiceFresh(service, encryptionKey) ==
    IF ~JsTruthy(encryptionKey)
    THEN [threw |-> TRUE, instance |-> NoService, cached |-> service]
    ELSE LET made == [made |-> TRUE, secret |-> encryptionKey.value,
                      keyBuffer |-> prepareKey(encryptionKey.value),
                      serial |-> service.serial + 1]
         IN  [threw |-> FALSE, instance |-> made, cached |-> made]

\* getEncryptionService(): what it returns and the instance cached afterwards,
\* `service` being the instance cached before and `encryptionKey` the value of
\* process.env.ENCRYPTION_KEY
getEncryptionService(service, encryptionKey) ==
    IF service.made
    THEN [threw |-> FALSE, instance |-> service, cached |-> service]
    ELSE IF ~JsTruthy(encryptionKey)
    THEN [threw |-> TRUE, instance |-> NoService, cached |-> service]
    ELSE LET made == [made |-> TRUE, secret |-> encryptionKey.value,
                      keyBuffer |-> prepareKey(encryptionKey.value),
                      serial |-> service.serial + 1]
         IN  [threw |-> FALSE, instance |-> made, cached |-> made]

\* the environment variable is set, changed or removed
SetEnv(value) ==
    /\ env' = value
    /\ UNCHANGED <<now, cookies, storage, mw, resp, api, tok, call, auth,
                   encryptionService, backend>>

\* a caller obtains the service
GetEncryptionService ==
    /\ LET r == getEncryptionService(encryptionService, env)
       IN  /\ call' = [fn |-> "getEncryptionService", env |-> env,
                       before |-> encryptionService, threw |-> r.threw,
                       instance |-> r.instance,
                       failedBefore |-> call.fn # "none"
                           /\ (call.failedBefore \/ (call.threw /\ ~call.instance.made))]
           /\ encryptionService' = r.cached
    /\ UNCHANGED <<now, cookies, storage, mw, resp, api, tok, auth, env, backend>>

\* encryptString(plaintext), randomBytes drawing iv
EncryptString(plaintext, iv) ==
    /\ LET r == getEncryptionService(encryptionService, env)
           e == IF r.threw THEN Failed
                ELSE encrypt(r.instance.keyBuffer, plaintext, iv)
       IN  /\ call' = [fn |-> "encryptString", env |-> env,
                       before |-> encryptionService, threw |-> e.threw,
                       instance |-> r.instance,
                       failedBefore |-> call.fn # "none"
                           /\ (call.failedBefore \/ (call.threw /\ ~call.instance.made)),
                       plaintext |-> plaintext, iv |-> iv, data |-> e.value]
           /\ encryptionService' = r.cached
    /\ UNCHANGED <<now, cookies, storage, mw, resp, api, tok, auth, env, backend>>

----------------------------------------------------------------------------
(* The Next.js API routes that forward to the backend.  A request carries   *)
(* its Authorization header and a body or query string; an answer tells    *)
(* the status, whether the backend was called and where the tenant id the  *)
(* backend call carries came from.                                          *)

\* body / query string: whether request.json() parses it, whether it names a
\* tenant_id, and whether its other fields pass the route's validation
Bodies == [parses : BOOLEAN, tenant_id : BOOLEAN, valid : BOOLEAN]

Answer(status, called, tenant) ==
    [status |-> status, backendCalled |-> called, tenant |-> tenant]

\* the answer of a route once it has called the backend: the backend's
Forwarded(tenant) == Answer("backend", TRUE, tenant)

\* the check the scan and dashboard routes start with
Unauthorized(h) == extractTenantFromToken(h) = "null"

\* POST /api/scans/start, the cipher succeeding or not
ScanStartPOST(h, body, encrypts) ==
    IF Unauthorized(h) THEN Answer("401", FALSE, "none")
    ELSE IF ~body.parses THEN Answer("500", FALSE, "none")
    ELSE IF ~body.valid THEN Answer("400", FALSE, "none")
    ELSE IF ~encrypts THEN Answer("500", FALSE, "none")
    ELSE Forwarded("token")

\* POST /api/scans
ScansPOST(h, body) ==
    IF Unauthorized(h) THEN Answer("401", FALSE, "none")
    ELSE IF ~body.parses THEN Answer("500", FALSE, "none")
    ELSE Forwarded("token")

\* GET /api/scans
ScansGET(h, body) ==
    IF Unauthorized(h) THEN Answer("401", FALSE, "none")
    ELSE Forwarded("token")

\* GET /api/scans/[scanId]; body.valid tells whether scanId is given
ScanDetailGET(h, body) ==
    IF Unauthorized(h) THEN Answer("401", FALSE, "none")
    ELSE IF ~body.valid THEN Answer("400", FALSE, "none")
    ELSE Forwarded("token")

\* POST /api/dashboard/metrics, the route that reads the token
DashboardMetricsPOST(h, body) ==
    IF Unauthorized(h) THEN Answer("401", FALSE, "none")
    ELSE IF ~body.parses THEN Answer("500", FALSE, "none")
    ELSE Forwarded("token")

\* GET /api/dashboard/metrics, the route that reads the token
DashboardMetricsGET(h, body) ==
    IF Unauthorized(h) THEN Answer("401", FALSE, "none")
    ELSE Forwarded("token")

\* POST /api/dashboard/metrics of app/api/dashboard/metrics/route.ts
MetricsRoutePOST(h, body) ==
    IF ~body.parses THEN Answer("500", FALSE, "none")
    ELSE IF ~body.tenant_id THEN Answer("400", FALSE, "none")
    ELSE Forwarded("request")

\* GET /api/dashboard/metrics of app/api/dashboard/metrics/route.ts
MetricsRouteGET(h, body) ==
    IF ~body.tenant_id THEN Answer("400", FALSE, "none")
    ELSE Forwarded("request")

\* GET /api/regions
RegionsGET(h, body) == Forwarded("none")

\* POST /api/regions
RegionsPOST(h, body) ==
    IF ~body.parses THEN Answer("500", FALSE, "none")
    ELSE Forwarded("none")

Routes ==
    {"ScanStartPOST", "ScansPOST", "ScansGET", "ScanDetailGET",
     "DashboardMetricsPOST", "DashboardMetricsGET", "MetricsRoutePOST", "MetricsRouteGET",
     "RegionsGET", "RegionsPOST"}

\* one request served by one route; the routes keep no state between requests
ServeRoute(route, h, body, encrypts) ==
    /\ call.fn = "none"
    /\ call' = [fn |-> route, header |-> h, body |-> body,
                answer |->
                    CASE route = "ScanStartPOST" -> ScanStartPOST(h, body, encrypts)
                      [] route = "ScansPOST" -> ScansPOST(h, body)
                      [] route = "ScansGET" -> ScansGET(h, body)
                      [] route = "ScanDetailGET" -> ScanDetailGET(h, body)
                      [] route = "DashboardMetricsPOST" -> DashboardMetricsPOST(h, body)
                      [] route = "DashboardMetricsGET" -> DashboardMetricsGET(h, body)
                      [] route = "MetricsRoutePOST" -> MetricsRoutePOST(h, body)
                      [] route = "MetricsRouteGET" -> MetricsRouteGET(h, body)
                      [] route = "RegionsGET" -> RegionsGET(h, body)
                      [] route = "RegionsPOST" -> RegionsPOST(h, body)]
    /\ UNCHANGED <<now, cookies, storage, mw, resp, api, tok, auth, env, encryptionService, backend>>

----------------------------------------------------------------------------
(* The AuthProvider of the browser tab: its React state, localStorage and  *)
(* document.cookie.  A method is one action, its backend answer an input.  *)

\* the profiles the backend delivers, in either casing
BackendUsers == {u \in UserObjects : u.id = "u1"}

\* the answers to /api/auth/signin, /api/auth/signup and /api/auth/refresh:
\* 2xx with the pair and the optional user, or a failure
NoAuthAnswer == [kind |-> "none", access |-> Absent, refresh |-> Absent, user |-> NoUser]
AuthAnswers ==
    [kind : {"ok"}, access : {NumTok(MaxExp * ClockStep)},
     refresh : {NumTok(MaxExp * ClockStep)}, user : BackendUsers \cup {NoUser}]
    \cup {[NoAuthAnswer EXCEPT !.kind = k] :
             k \in {"okUnparsable", "notOk", "networkError"}}

\* the answers to /api/auth/me: 2xx with the profile, 401, or a failure that
\* says nothing about the token (503, the network)
MeAnswers ==
    [kind : {"ok"}, access : {Absent}, refresh : {Absent}, user : BackendUsers]
    \cup {[NoAuthAnswer EXCEPT !.kind = k] :
             k \in {"notOk", "unavailable", "networkError"}}

\* the answers to /api/auth/onboarding/complete
OnboardingAnswers ==
    {[NoAuthAnswer EXCEPT !.kind = k] : k \in {"ok", "notOk", "networkError"}}

AuthIdle ==
    [op |-> "none", pc |-> "idle", user |-> NoUser, isLoading |-> TRUE,
     pushed |-> <<>>, threw |-> FALSE, answer |-> NoAuthAnswer,
     hadSession |-> FALSE, onboarded |-> FALSE]

\* transformUserData: the object spread keeps the delivered keys and the
\* camelCase keys are added, each `snake ?? camel`
transformUserData(userData) ==
    IF userData.casing = "camel" THEN userData
    ELSE IF userData.casing = "snake"
    THEN [userData EXCEPT !.casing = "both", !.snake = userData.completed]
    ELSE [userData EXCEPT !.completed = userData.snake]

\* what a method leaves: the two channels, the React state, the route pushed
\* and whether the method rejected
Outcome(st, ck, user, pushed, threw) ==
    [storage |-> st, cookies |-> ck, user |-> user, pushed |-> pushed,
     threw |-> threw]

\* AuthProvider clearAuthData: both channels and the React state
AuthCleared(pushed, threw) == Outcome(NoStorage, NoStorage, NoUser, pushed, threw)

\* transformUserData(undefined) throws a TypeError
StoreThrows(authData) == authData.user.kind # "obj"

\* storeAuthData: what it writes to localStorage, to the cookies and to the
\* React state
storeAuthData(authData) ==
    [access |-> authData.access, refresh |-> authData.refresh,
     user |-> transformUserData(authData.user)]

\* authData.data.user.onboarding_completed, read from the answer as delivered
RawOnboardingCompleted(userData) ==
    \/ userData.casing = "snake" /\ userData.completed
    \/ userData.casing = "both" /\ userData.snake

\* login: errors are rethrown
login(st, ck, user, answer) ==
    IF answer.kind # "ok" \/ StoreThrows(answer)
    THEN Outcome(st, ck, user, <<>>, TRUE)
    ELSE Outcome(storeAuthData(answer), storeAuthData(answer),
                 storeAuthData(answer).user,
                 IF ~RawOnboardingCompleted(answer.user)
                 THEN P("onboarding") ELSE P("dashboard"),
                 FALSE)

\* signup: as login, always on to /onboarding
signup(st, ck, user, answer) ==
    IF answer.kind # "ok" \/ StoreThrows(answer)
    THEN Outcome(st, ck, user, <<>>, TRUE)
    ELSE Outcome(storeAuthData(answer), storeAuthData(answer),
                 storeAuthData(answer).user, P("onboarding"), FALSE)

\* logout
logout == AuthCleared(P("signin"), FALSE)

\* AuthProvider refreshToken: every error, the TypeError of storeAuthData
\* included, is caught, clears both channels and pushes /signin
authRefreshToken(st, ck, user, answer) ==
    IF ~Truthy(st.refresh) \/ answer.kind # "ok" \/ StoreThrows(answer)
    THEN AuthCleared(P("signin"), FALSE)
    ELSE Outcome(storeAuthData(answer), storeAuthData(answer),
                 storeAuthData(answer).user, <<>>, FALSE)

\* verifyCurrentUser: the profile is rewritten on 2xx, every failure clears
verifyCurrentUser(st, ck, user, answer) ==
    IF answer.kind # "ok" THEN AuthCleared(<<>>, FALSE)
    ELSE Outcome([st EXCEPT !.user = transformUserData(answer.user)],
                 [ck EXCEPT !.user = transformUserData(answer.user)],
                 transformUserData(answer.user), <<>>, FALSE)

\* initializeAuth up to its await: `wait` tells whether verifyCurrentUser
\* is called
initializeAuth(st, ck) ==
    IF ~(Truthy(st.access) /\ Truthy(st.refresh) /\ st.user.kind # "absent")
    THEN [wait |-> FALSE, out |-> Outcome(st, ck, NoUser, <<>>, FALSE)]
    ELSE IF st.user.kind = "garbage"                \* JSON.parse throws
    THEN [wait |-> FALSE, out |-> AuthCleared(<<>>, FALSE)]
    ELSE [wait |-> TRUE,
          out |-> Outcome(st,
                          [access |-> st.access, refresh |-> st.refresh,
                           user |-> transformUserData(st.user)],
                          transformUserData(st.user), <<>>, FALSE)]

\* { ...user, onboardingCompleted: true }
Onboarded(user) == [user EXCEPT !.completed = TRUE]

\* completeOnboarding: errors are rethrown; the profile is rewritten only
\* when the React state holds a user
completeOnboarding(st, ck, user, answer) ==
    IF ~Truthy(st.access) \/ answer.kind # "ok"
    THEN Outcome(st, ck, user, <<>>, TRUE)
    ELSE IF user.kind # "obj" THEN Outcome(st, ck, user, P("dashboard"), FALSE)
    ELSE Outcome([st EXCEPT !.user = Onboarded(user)],
                 [ck EXCEPT !.user = Onboarded(user)],
                 Onboarded(user), P("dashboard"), FALSE)

\* a session is stored: the pair and a profile, in both channels
SessionStored(st, ck) ==
    /\ Truthy(st.access) /\ Truthy(st.refresh) /\ st.user.kind = "obj"
    /\ Truthy(ck.access) /\ Truthy(ck.refresh) /\ ck.user.kind = "obj"

\* a method ran to its end with outcome `out`
AuthApply(op, answer, out, onboarded) ==
    /\ auth' = [auth EXCEPT !.op = op, !.pc = "idle", !.user = out.user,
                            !.pushed = out.pushed, !.threw = out.threw,
                            !.answer = answer,
                            !.hadSession = SessionStored(storage, cookies),
                            !.onboarded = onboarded]
    /\ storage' = out.storage
    /\ cookies' = out.cookies
    /\ call' = NoCall
    /\ UNCHANGED <<now, mw, resp, api, tok, env, encryptionService, backend>>

AuthLogin(answer) ==
    /\ auth.pc = "idle" /\ ~auth.isLoading
    /\ AuthApply("login", answer, login(storage, cookies, auth.user, answer),
                 auth.onboarded /\ login(storage, cookies, auth.user, answer).threw)

AuthSignup(answer) ==
    /\ auth.pc = "idle" /\ ~auth.isLoading
    /\ AuthApply("signup", answer, signup(storage, cookies, auth.user, answer),
                 auth.onboarded /\ signup(storage, cookies, auth.user, answer).threw)

AuthLogout ==
    /\ auth.pc = "idle" /\ ~auth.isLoading
    /\ AuthApply("logout", NoAuthAnswer, logout, FALSE)

AuthRefreshToken(answer) ==
    /\ auth.pc = "idle" /\ ~auth.isLoading
    /\ AuthApply("refreshToken", answer,
                 authRefreshToken(storage, cookies, auth.user, answer), FALSE)

AuthCompleteOnboarding(answer) ==
    /\ auth.pc = "idle" /\ ~auth.isLoading
    /\ LET out == completeOnboarding(storage, cookies, auth.user, answer)
       IN  AuthApply("completeOnboarding", answer, out,
                     IF out.threw THEN auth.onboarded
                     ELSE auth.user.kind = "obj")

\* the page is loaded: the React state starts anew and initializeAuth runs
\* up to its await
AuthInitialize ==
    /\ auth.pc = "idle"
    /\ LET r == initializeAuth(storage, cookies)
       IN  /\ auth' = [auth EXCEPT !.op = "initializeAuth",
                                   !.pc = IF r.wait THEN "verifying" ELSE "idle",
                                   !.user = r.out.user,
                                   !.isLoading = r.wait,
                                   !.pushed = <<>>, !.threw = FALSE,
                                   !.answer = NoAuthAnswer,
                                   !.hadSession = SessionStored(storage, cookies),
                                   !.onboarded = auth.onboarded /\ r.wait]
           /\ storage' = r.out.storage
           /\ cookies' = r.out.cookies
    /\ call' = NoCall
    /\ UNCHANGED <<now, mw, resp, api, tok, env, encryptionService, backend>>

\* /api/auth/me answers and initializeAuth ends
AuthVerifyReturns(answer) ==
    /\ auth.pc = "verifying"
    /\ LET out == verifyCurrentUser(storage, cookies, auth.user, answer)
       IN  /\ auth' = [auth EXCEPT !.op = "verifyCurrentUser", !.pc = "idle",
                                   !.user = out.user, !.isLoading = FALSE,
                                   !.answer = answer,
                                   !.hadSession = SessionStored(storage, cookies),
                                   !.onboarded = FALSE]
           /\ storage' = out.storage
           /\ cookies' = out.cookies
    /\ call' = NoCall
    /\ UNCHANGED <<now, mw, resp, api, tok, env, encryptionService, backend>>

----------------------------------------------------------------------------
(* Navigation: the browser follows the redirects of the middleware, the    *)
(* page that passes through mounts the AuthProvider, and RouteProtection   *)
(* pushes a route.                                                          *)

\* RouteProtection's effect: the route it pushes, <<>> when none;
\* isAuthenticated is !!user
RouteProtectionTarget(user, isLoading, pathname) ==
    IF isLoading THEN <<>>
    ELSE IF user.kind = "obj" /\ pathname \in authRoutes
    THEN IF onboardingCompleted(user) THEN P("dashboard") ELSE P("onboarding")
    ELSE IF user.kind # "obj" /\ pathname \notin publicRoutes
    THEN P("signin")
    ELSE IF /\ user.kind = "obj" /\ ~onboardingCompleted(user)
            /\ pathname # P("onboarding")
    THEN P("onboarding")
    ELSE IF /\ user.kind = "obj" /\ onboardingCompleted(user)
            /\ pathname = P("onboarding")
    THEN P("dashboard")
    ELSE <<>>

\* the browser requests a page
Navigate(pathname) ==
    /\ mw.pc = "idle"
    /\ MwRequest(pathname, Absent)

\* the browser follows the redirect it was answered, with the cookie
\* deletions and sets of that answer applied
FollowRedirect ==
    /\ mw.pc = "done" /\ resp.kind = "redirect"
    /\ MwRequest(resp.to, Absent)

\* the page that passed through mounts the AuthProvider
PageLoads ==
    /\ mw.pc = "done" /\ resp.kind = "next" /\ ~Skipped(mw.pathname)
    /\ auth.op = "none"
    /\ AuthInitialize

\* RouteProtection pushes a route and the middleware is asked for it
RouteProtectionPushes ==
    /\ mw.pc = "done" /\ resp.kind = "next"
    /\ auth.op # "none"
    /\ RouteProtectionTarget(auth.user, auth.isLoading, mw.pathname) # <<>>
    /\ MwRequest(RouteProtectionTarget(auth.user, auth.isLoading, mw.pathname),
                 Absent)

----------------------------------------------------------------------------
(* Refresh exchanges of one session in flight at once, against a backend   *)
(* that rotates the refresh token on use.  Each call site makes one        *)
(* exchange: two middleware requests awaiting refreshTokens, the           *)
(* middleware's background refresh, and ApiClient.refreshAccessToken.      *)

Clients == {"mw1", "mw2", "bg", "api"}

\* one exchange: not begun, sent with `token`, answered, handled by its caller
NoExchange == [pc |-> "idle", token |-> Absent, answer |-> NoApiAnswer]

NoBackend ==
    [rotating |-> FALSE, valid |-> Absent, access |-> Absent, issued |-> 0,
     overlap |-> FALSE, ex |-> [c \in Clients |-> NoExchange]]

InFlight(c) == backend.ex[c].pc \in {"sent", "answered"}

\* POST /auth/refresh is sent by call site c carrying `token`
Sends(c, token) ==
    backend' = [backend EXCEPT
                !.ex[c] = [pc |-> "sent", token |-> token, answer |-> NoApiAnswer],
                !.overlap = @ \/ \E d \in Clients \ {c} : InFlight(d)]

\* the rotating backend: the refresh token it last issued is exchanged for a
\* new pair, every other token is refused
Exchange(token) ==
    IF token = backend.valid
    THEN [kind |-> "ok", access |-> NumTok(backend.valid.exp + ClockStep),
          refresh |-> NumTok(backend.valid.exp + ClockStep), user |-> NoUser]
    ELSE [NoApiAnswer EXCEPT !.kind = "notOk"]

BackendServes(c) ==
    /\ backend.ex[c].pc = "sent"
    /\ LET answer == Exchange(backend.ex[c].token)
       IN  backend' = [backend EXCEPT
                       !.ex[c].pc = "answered", !.ex[c].answer = answer,
                       !.valid = IF answer.kind = "ok" THEN answer.refresh ELSE @,
                       !.access = IF answer.kind = "ok" THEN answer.access ELSE @,
                       !.issued = IF answer.kind = "ok" THEN @ + 1 ELSE @]
    /\ UNCHANGED <<now, cookies, storage, mw, resp, api, tok, call, auth, env,
                   encryptionService>>

\* middleware lines 80-85: a request finds the access token expired and the
\* refresh token valid, and awaits refreshTokens(refreshToken)
MwStartsRefresh(c) ==
    /\ c \in {"mw1", "mw2"} /\ backend.ex[c].pc = "idle"
    /\ ~(Truthy(cookies.access) /\ ~isTokenExpired(cookies.access, now))
    /\ Truthy(cookies.refresh) /\ ~isTokenExpired(cookies.refresh, now)
    /\ Sends(c, cookies.refresh)
    /\ UNCHANGED <<now, cookies, storage, mw, resp, api, tok, call, auth, env,
                   encryptionService>>

\* middleware lines 86-116: the awaited refreshTokens returns to request c
MwExchangeReturns(c) ==
    /\ c \in {"mw1", "mw2"} /\ backend.ex[c].pc = "answered"
    /\ LET refreshed == refreshTokens(backend.ex[c].answer)
           r == IF refreshed.ok THEN RefreshedResponse(refreshed)
                ELSE RefreshFailedResponse
       IN  cookies' = ApplyResponse(cookies, r)
    /\ backend' = [backend EXCEPT !.ex[c].pc = "done"]
    /\ UNCHANGED <<now, storage, mw, resp, api, tok, call, auth, env,
                   encryptionService>>

\* middleware lines 152-156: a request in the near-expiry case fires the
\* background refresh
MwFiresBackground ==
    /\ backend.ex["bg"].pc = "idle"
    /\ FiresBackgroundRefresh(cookies.access,
           Truthy(cookies.access) /\ ~isTokenExpired(cookies.access, now),
           Truthy(cookies.refresh) /\ ~isTokenExpired(cookies.refresh, now), now)
    /\ Sends("bg", cookies.refresh)
    /\ UNCHANGED <<now, cookies, storage, mw, resp, api, tok, call, auth, env,
                   encryptionService>>

\* middleware lines 156-161: the background refresh returns; its result is
\* only logged
BackgroundExchangeReturns ==
    /\ backend.ex["bg"].pc = "answered"
    /\ backend' = [backend EXCEPT !.ex["bg"].pc = "done"]
    /\ UNCHANGED <<now, cookies, storage, mw, resp, api, tok, call, auth, env,
                   encryptionService>>

\* getHeaders finds the stored access token expired and awaits
\* refreshAccessToken, which sends the stored refresh token
ApiStartsRefresh ==
    /\ backend.ex["api"].pc = "idle"
    /\ GetHeaders(storage, now).wait
    /\ Sends("api", storage.refresh)
    /\ UNCHANGED <<now, cookies, storage, mw, resp, api, tok, call, auth, env,
                   encryptionService>>

\* refreshAccessToken after its fetch
ApiExchangeReturns ==
    /\ backend.ex["api"].pc = "answered"
    /\ storage' = RefreshStores(storage, backend.ex["api"].answer)
    /\ backend' = [backend EXCEPT !.ex["api"].pc = "done"]
    /\ UNCHANGED <<now, cookies, mw, resp, api, tok, call, auth, env,
                   encryptionService>>

----------------------------------------------------------------------------
(* Idle values of the parts a specification does not exercise.             *)

TokIdle ==
    [fn |-> "none", token |-> Absent, header |-> NoHeader, at |-> 0,
     expired |-> FALSE]


----------------------------------------------------------------------------
(* The expiry checks, each applied to one token at one clock value.        *)

CheckMiddleware(token, t) ==
    /\ tok' = [TokIdle EXCEPT !.fn = "isTokenExpired", !.token = token, !.at = t,
                              !.expired = isTokenExpired(token, t)]
    /\ UNCHANGED <<now, cookies, storage, mw, resp, api, call, auth, env, encryptionService, backend>>

CheckApiClient(token, t) ==
    /\ tok' = [TokIdle EXCEPT !.fn = "ApiClient.isTokenExpired", !.token = token,
                              !.at = t,
                              !.expired = ApiIsTokenExpired(token, t)]
    /\ UNCHANGED <<now, cookies, storage, mw, resp, api, call, auth, env, encryptionService, backend>>

CheckPayload(authHeader, t) ==
    /\ tok' = [TokIdle EXCEPT !.fn = "extractTokenPayload",
                              !.token = authHeader.token,
                              !.header = authHeader, !.at = t,
                              !.expired = ~extractTokenPayload(authHeader, t)]
    /\ UNCHANGED <<now, cookies, storage, mw, resp, api, call, auth, env, encryptionService, backend>>

\* refreshTokens(refreshToken) called and answered
CallRefreshTokens(answer) ==
    /\ LET r == refreshTokens(answer)
       IN  call' = [fn |-> "refreshTokens", answer |-> answer, fetched |-> TRUE,
                    result |-> IF r.threw THEN "throw"
                               ELSE IF r.ok THEN "pair" ELSE "absent",
                    accessToken |-> r.accessToken,
                    refreshToken |-> r.refreshToken]
    /\ UNCHANGED <<now, cookies, storage, mw, resp, api, tok, auth, env, encryptionService, backend>>

\* ApiClient.refreshAccessToken() called and answered
CallRefreshAccessToken(answer) ==
    /\ LET r == refreshAccessToken(storage, now, answer)
       IN  /\ call' = [fn |-> "refreshAccessToken", answer |-> answer,
                       fetched |-> r.fetched,
                       result |-> IF r.result = "throw" THEN "throw"
                                  ELSE IF r.result = "true" THEN "pair"
                                  ELSE "absent",
                       accessToken |-> r.storage.access,
                       refreshToken |-> r.storage.refresh]
           /\ storage' = r.storage
    /\ UNCHANGED <<now, cookies, mw, resp, api, tok, auth, env, encryptionService, backend>>

\* the three claim-decoding helpers, each called with one argument
CallExtractTenant(h) ==
    /\ call' = [fn |-> "extractTenantFromToken", header |-> h, at |-> 0,
                result |-> extractTenantFromToken(h)]
    /\ UNCHANGED <<now, cookies, storage, mw, resp, api, tok, auth, env, encryptionService, backend>>

CallExtractUser(h) ==
    /\ call' = [fn |-> "extractUserFromToken", header |-> h, at |-> 0,
                result |-> extractUserFromToken(h)]
    /\ UNCHANGED <<now, cookies, storage, mw, resp, api, tok, auth, env, encryptionService, backend>>

CallExtractPayload(h, t) ==
    /\ call' = [fn |-> "extractTokenPayload", header |-> h, at |-> t,
                result |-> IF extractTokenPayload(AuthHeaderOf(h), t)
                           THEN "value" ELSE "null"]
    /\ UNCHANGED <<now, cookies, storage, mw, resp, api, tok, auth, env, encryptionService, backend>>

InitCodec ==
    /\ now = 0
    /\ cookies = NoStorage
    /\ storage = NoStorage
    /\ mw = MwIdle
    /\ resp = NoResp
    /\ api = ApiIdle
    /\ tok = TokIdle
    /\ call = NoCall
    /\ auth = AuthIdle
    /\ env = Undefined
    /\ encryptionService = NoService
    /\ backend = NoBackend

NextCodec ==
    \/ \E token \in Tokens, t \in Times : CheckMiddleware(token, t)
    \/ \E token \in Tokens, t \in Times : CheckApiClient(token, t)
    \/ \E authHeader \in AuthHeaders, t \in Times : CheckPayload(authHeader, t)

SpecCodec == InitCodec /\ [][NextCodec]_vars

\* the claim-decoding helpers applied to every argument
NextClaims ==
    \/ \E h \in HeaderStrings : CallExtractTenant(h)
    \/ \E h \in HeaderStrings : CallExtractUser(h)
    \/ \E h \in HeaderStrings, t \in Times : CallExtractPayload(h, t)

SpecClaims == InitCodec /\ [][NextClaims]_vars

\* one EncryptionService and the calls made on it
NextCipher ==
    \/ \E encryptionKey \in Secrets : NewService(encryptionKey)
    \/ \E plaintext \in Plaintexts, iv \in Ivs : Encrypt(plaintext, iv)
    \/ \E kind \in TamperKinds : Tamper(kind)
    \/ Decrypt
    \/ \E accessKey \in {<<>>, <<65>>}, secretKey \in {<<97>>},
          sessionToken \in {Undefined, Str(<<>>), Str(<<116>>)},
          ivs \in {<<a, b, a>> : a \in Ivs, b \in Ivs} :
              EncryptCredentials(accessKey, secretKey, sessionToken, ivs)

SpecCipher == InitCodec /\ [][NextCipher]_vars

\* one browser tab: the AuthProvider's methods in any order, and the
\* ApiClient refreshing against the same localStorage
NextAuth ==
    \/ \E answer \in AuthAnswers : AuthLogin(answer)
    \/ \E answer \in AuthAnswers : AuthSignup(answer)
    \/ AuthLogout
    \/ \E answer \in AuthAnswers : AuthRefreshToken(answer)
    \/ \E answer \in OnboardingAnswers : AuthCompleteOnboarding(answer)
    \/ AuthInitialize
    \/ \E answer \in MeAnswers : AuthVerifyReturns(answer)
    \/ \E answer \in ApiRefreshAnswers : CallRefreshAccessToken(answer)

SpecAuth == InitCodec /\ [][NextAuth]_vars

\* one session, held in the cookies and in localStorage, whose access token
\* is expired or about to expire, and the call sites refreshing it
RotationStart == (MaxNow - 1) * ClockStep

InitRotation ==
    /\ now = RotationStart
    /\ \E access \in {NumTok(RotationStart - ClockStep), NumTok(RotationStart)} :
           cookies = [access |-> access, refresh |-> NumTok(MaxNow * ClockStep),
                      user |-> [kind |-> "obj", casing |-> "camel",
                                completed |-> TRUE, snake |-> FALSE, id |-> "u1"]]
    /\ storage = cookies
    /\ mw = MwIdle
    /\ resp = NoResp
    /\ api = ApiIdle
    /\ tok = TokIdle
    /\ call = NoCall
    /\ auth = AuthIdle
    /\ env = Undefined
    /\ encryptionService = NoService
    /\ backend = [NoBackend EXCEPT !.rotating = TRUE, !.valid = cookies.refresh,
                                   !.access = cookies.access]

NextRotation ==
    \/ \E c \in {"mw1", "mw2"} : MwStartsRefresh(c)
    \/ \E c \in {"mw1", "mw2"} : MwExchangeReturns(c)
    \/ MwFiresBackground
    \/ BackgroundExchangeReturns
    \/ ApiStartsRefresh
    \/ ApiExchangeReturns
    \/ \E c \in Clients : BackendServes(c)
    \/ Tick

SpecRotation == InitRotation /\ [][NextRotation]_vars

\* one browser: any cookie jar, localStorage holding the same session or
\* cleared, and a page requested
NavTokens == {Absent, NumTok(ClockStep), NumTok(MaxExp * ClockStep)}

InitNav ==
    /\ now \in {ClockStep, MaxExp * ClockStep}
    /\ cookies \in [access : NavTokens, refresh : NavTokens, user : CookieUsers]
    /\ storage \in {NoStorage, cookies}
    /\ mw = MwIdle
    /\ resp = NoResp
    /\ api = ApiIdle
    /\ tok = TokIdle
    /\ call = NoCall
    /\ auth = AuthIdle
    /\ env = Undefined
    /\ encryptionService = NoService
    /\ backend = NoBackend

NextNav ==
    \/ \E pathname \in Pathnames : Navigate(pathname)
    \/ FollowRedirect
    \/ \E answer \in RefreshAnswers : MwRefreshReturns(answer)
    \/ PageLoads
    \/ \E answer \in MeAnswers : AuthVerifyReturns(answer)
    \/ RouteProtectionPushes

SpecNav == InitNav /\ [][NextNav]_vars

\* the browser does follow a redirect, and a refresh the middleware awaits
\* does return
SpecNavFair ==
    /\ SpecNav
    /\ WF_vars(FollowRedirect)
    /\ WF_vars(\E answer \in RefreshAnswers : MwRefreshReturns(answer))

\* the API routes, each served every request
NextRoutes ==
    \E route \in Routes, h \in HeaderStrings, body \in Bodies, encrypts \in BOOLEAN :
        ServeRoute(route, h, body, encrypts)

SpecRoutes == InitCodec /\ [][NextRoutes]_vars

\* one server process: its environment and the callers of the singleton
InitService ==
    /\ now = 0
    /\ cookies = NoStorage
    /\ storage = NoStorage
    /\ mw = MwIdle
    /\ resp = NoResp
    /\ api = ApiIdle
    /\ tok = TokIdle
    /\ call = NoCall
    /\ auth = AuthIdle
    /\ env \in EnvValues
    /\ encryptionService = NoService
    /\ backend = NoBackend

NextService ==
    \/ \E value \in EnvValues : SetEnv(value)
    \/ GetEncryptionService
    \/ \E plaintext \in {<<>>, <<65>>}, iv \in Ivs : EncryptString(plaintext, iv)

SpecService == InitService /\ [][NextService]_vars

----------------------------------------------------------------------------
(* The middleware serving the requests of one browser.                     *)

\* the tokens a browser holds or sends: absent, malformed in the two ways the
\* expiry check tells apart, and well-formed with each exp
MwTokens == {Absent, Tok("undecodable"), Tok("noexp")} \cup NumTokens
HeaderTokens == {Absent, NumTok(MaxExp * ClockStep)}

CookieJars == [access : MwTokens, refresh : MwTokens, user : CookieUsers]

InitMw ==
    /\ now = 0
    /\ cookies \in CookieJars
    /\ storage = NoStorage
    /\ mw = MwIdle
    /\ resp = NoResp
    /\ api = ApiIdle
    /\ tok = TokIdle
    /\ call = NoCall
    /\ auth = AuthIdle
    /\ env = Undefined
    /\ encryptionService = NoService
    /\ backend = NoBackend

\* the answers to a background refresh: a fresh pair, or each failure
BackgroundAnswers ==
    {answer \in RefreshAnswers :
        answer.kind = "ok" => answer.access = NumTok(MaxExp * ClockStep)}

NextMw ==
    \/ \E pathname \in Pathnames, authorization \in HeaderTokens :
           MwRequest(pathname, authorization)
    \/ \E answer \in RefreshAnswers : MwRefreshReturns(answer)
    \/ \E answer \in BackgroundAnswers : MwBackgroundRefreshReturns(answer)
    \/ Tick

SpecMw == InitMw /\ [][NextMw]_vars

----------------------------------------------------------------------------
(* One browser tab issuing ApiClient requests.                             *)

ApiTokens == {Absent, Tok("noexp")} \cup NumTokens
StorageUsers ==
    {NoUser, [kind |-> "obj", casing |-> "camel", completed |-> TRUE, snake |-> FALSE, id |-> "u1"]}

InitApi ==
    /\ now = 0
    /\ cookies = NoStorage
    /\ storage \in [access : ApiTokens, refresh : ApiTokens, user : StorageUsers]
    /\ mw = MwIdle
    /\ resp = NoResp
    /\ api = ApiIdle
    /\ tok = TokIdle
    /\ call = NoCall
    /\ auth = AuthIdle
    /\ env = Undefined
    /\ encryptionService = NoService
    /\ backend = NoBackend

NextApi ==
    \/ \E requireAuth \in BOOLEAN : ApiRequest(requireAuth)
    \/ \E answer \in ApiRefreshAnswers : ApiHeaderRefreshReturns(answer)
    \/ \E answer \in DataAnswers : ApiSendReturns(answer)
    \/ \E answer \in ApiRefreshAnswers : ApiRefresh401Returns(answer)
    \/ \E answer \in DataAnswers : ApiRetryReturns(answer)
    \/ Tick

SpecApi == InitApi /\ [][NextApi]_vars

----------------------------------------------------------------------------
(* One browser tab whose session was stored by the AuthProvider, which     *)
(* writes each of the three keys to localStorage and to the same-named     *)
(* cookie: ApiClient requests, and the page load of /signin that follows   *)
(* `window.location.href = '/signin'`, which the middleware handles with   *)
(* the cookies the browser still holds.                                     *)

\* request line 815: the browser loads /signin
SignOutNavigation ==
    /\ api.pc = "done" /\ api.navigated
    /\ mw.pc = "idle"
    /\ MwRequest(P("signin"), Absent)

InitTab ==
    /\ now = 0
    /\ storage \in [access : ApiTokens, refresh : ApiTokens, user : StorageUsers]
    /\ cookies = storage
    /\ mw = MwIdle
    /\ resp = NoResp
    /\ api = ApiIdle
    /\ tok = TokIdle
    /\ call = NoCall
    /\ auth = AuthIdle
    /\ env = Undefined
    /\ encryptionService = NoService
    /\ backend = NoBackend

NextTab ==
    \/ \E requireAuth \in BOOLEAN : ApiRequest(requireAuth)
    \/ \E answer \in ApiRefreshAnswers : ApiHeaderRefreshReturns(answer)
    \/ \E answer \in DataAnswers : ApiSendReturns(answer)
    \/ \E answer \in ApiRefreshAnswers : ApiRefresh401Returns(answer)
    \/ \E answer \in DataAnswers : ApiRetryReturns(answer)
    \/ SignOutNavigation
    \/ \E answer \in RefreshAnswers : MwRefreshReturns(answer)
    \/ Tick

SpecTab == InitTab /\ [][NextTab]_vars

----------------------------------------------------------------------------
(* The two refresh calls, each applied to every answer of the backend.     *)

InitRefresh ==
    /\ now = 0
    /\ cookies = NoStorage
    /\ storage \in [access : ApiTokens, refresh : ApiTokens, user : StorageUsers]
    /\ mw = MwIdle
    /\ resp = NoResp
    /\ api = ApiIdle
    /\ tok = TokIdle
    /\ call = NoCall
    /\ auth = AuthIdle
    /\ env = Undefined
    /\ encryptionService = NoService
    /\ backend = NoBackend

NextRefresh ==
    \/ \E answer \in RefreshAnswers : CallRefreshTokens(answer)
    \/ \E answer \in ApiRefreshAnswers : CallRefreshAccessToken(answer)
    \/ Tick

SpecRefresh == InitRefresh /\ [][NextRefresh]_vars

----------------------------------------------------------------------------
(* Properties of the expiry checks (SpecCodec).                            *)

\* the payload cannot be decoded or parsed, or has no numeric exp
NoUsableExp(token) == token.kind \in {"undecodable", "null", "noexp", "strexp"}

\* C1: every token whose payload cannot be decoded or parsed, or whose payload
\* has no exp or a non-numeric one, is reported expired by isTokenExpired,
\* ApiClient.isTokenExpired and extractTokenPayload at every clock value.
ExpiryFailClosed ==
    (tok.fn # "none" /\ NoUsableExp(tok.token)) => tok.expired

----------------------------------------------------------------------------
(* Properties of the claim-decoding helpers (SpecClaims).                  *)

Decoders == {"extractTenantFromToken", "extractUserFromToken", "extractTokenPayload"}

\* C17 as stated: for null, the empty string, a header without the 'Bearer '
\* prefix, a token with fewer than three segments, a second segment that is
\* not base64 and one that is not JSON, the three helpers return null.
DecodingNullOnMalformed ==
    (/\ call.fn \in Decoders
     /\ \/ NotBearer(call.header)
        \/ call.header.segments < 3
        \/ call.header.middle \in {"notBase64", "notJson"})
        => call.result = "null"

\* C17 amended: the three helpers never throw, whatever the argument, and
\* return null for null, the empty string, a header without the 'Bearer '
\* prefix, a token with no second segment, a second segment that is not
\* base64 and one that is not JSON.
DecodingTotal ==
    call.fn \in Decoders
        => /\ call.result \in {"null", "value"}
           /\ (\/ NotBearer(call.header)
               \/ call.header.segments < 2
               \/ call.header.middle \in {"notBase64", "notJson"})
                  => call.result = "null"

DecodingTotalWitness ==
    /\ call.fn = "extractUserFromToken"
    /\ call.header.bearer /\ call.header.segments = 3
    /\ call.header.middle = "notJson" /\ call.header.sub
    /\ call.result = "null"

----------------------------------------------------------------------------
(* Properties of the EncryptionService (SpecCipher).                       *)

\* C18: for every non-empty plaintext, every configured secret and every IV,
\* encrypt returns a ciphertext and decrypt of it returns the plaintext.
CipherRoundTrip ==
    /\ (call.fn = "encrypt" /\ call.plaintext # <<>>) => ~call.threw
    /\ (call.fn = "decrypt" /\ call.tamper = "none" /\ call.plaintext # <<>>)
           => (~call.threw /\ call.text = call.plaintext)

\* C19: decrypt raises an error for a blob shorter than 16 bytes, a body
\* with invalid padding and an input that is not valid base64, and no
\* damaged ciphertext is decrypted to a text other than the plaintext.
CorruptCiphertextRejected ==
    (call.fn = "decrypt" /\ call.tamper # "none")
        => /\ call.tamper \in {"short", "badPadding", "illegalChar"} => call.threw
           /\ ~call.threw => call.text = call.plaintext

\* C20: the object encryptAWSCredentials returns has the key
\* encrypted_aws_session_token exactly when a session token was supplied,
\* and so has the body sent to the backend.
SessionTokenKeyOmitted ==
    (call.fn = "encryptAWSCredentials" /\ ~call.threw)
        => /\ "encrypted_aws_session_token" \in DOMAIN call.object
                  <=> JsTruthy(call.sessionToken)
           /\ "encrypted_aws_session_token" \in DOMAIN call.body
                  <=> JsTruthy(call.sessionToken)

\* the first 32 bytes of the secret, right-padded with the byte '0'
First32Bytes(secret) ==
    LET bytes == Utf8Encode(secret)
    IN  IF Len(bytes) >= KeyLength THEN SubSeq(bytes, 1, KeyLength)
        ELSE bytes \o Repeat(48, KeyLength - Len(bytes))

\* C21: for every configured secret the prepared key has exactly 32 bytes:
\* the first 32 bytes of the secret when it is longer, the secret padded with
\* the byte '0' when it is shorter, and the secret itself otherwise.
PreparedKeyHas32Bytes ==
    call.fn \in CipherFns
        => /\ Len(call.keyBuffer) = KeyLength
           /\ call.keyBuffer = First32Bytes(call.secret)

----------------------------------------------------------------------------
(* Properties of the AuthProvider (SpecAuth).                              *)

\* the AuthProvider method that ran last, no ApiClient call having followed
LastAuthOp(op) == call.fn = "none" /\ auth.op = op

\* C24: the session is destroyed only by logout or by a refresh that cannot
\* recover: AuthProvider.refreshToken answered 2xx, with or without `user`,
\* leaves a session stored, and a failure of the /auth/me check that says
\* nothing about the token (503, the network) does not destroy the session.
SessionSurvives ==
    /\ (LastAuthOp("refreshToken") /\ auth.hadSession /\ auth.answer.kind = "ok")
           => SessionStored(storage, cookies)
    /\ (/\ LastAuthOp("verifyCurrentUser") /\ auth.hadSession
        /\ auth.answer.kind \in {"unavailable", "networkError"})
           => SessionStored(storage, cookies)

\* C25: for a backend profile in either casing, login's redirect follows the
\* backend's onboarding flag, and the profile every writer stores in
\* localStorage and in the cloudlens_user cookie gives the middleware and
\* ApiClient.getHeaders the backend's tenantId and onboardingCompleted.
ProfileNormalized ==
    /\ (LastAuthOp("login") /\ ~auth.threw)
           => auth.pushed = IF auth.answer.user.completed
                            THEN P("dashboard") ELSE P("onboarding")
    /\ (/\ \/ LastAuthOp("login") \/ LastAuthOp("signup")
           \/ LastAuthOp("refreshToken") \/ LastAuthOp("verifyCurrentUser")
        /\ ~auth.threw /\ auth.answer.kind = "ok" /\ auth.answer.user.kind = "obj")
           => /\ onboardingCompleted(storage.user) = auth.answer.user.completed
              /\ onboardingCompleted(ParseUser(cookies.user))
                     = auth.answer.user.completed
              /\ TenantIdOf(storage.user) = "t1"
              /\ TenantIdOf(ParseUser(cookies.user)) = "t1"
    /\ (/\ call.fn = "refreshAccessToken" /\ call.result = "pair"
        /\ call.answer.user.kind = "obj")
           => /\ onboardingCompleted(storage.user) = call.answer.user.completed
              /\ TenantIdOf(storage.user) = "t1"

\* C29: after completeOnboarding succeeded for a logged-in user the profile
\* in localStorage and in the cloudlens_user cookie reads onboardingCompleted
\* = true, and so do they and the React state once initializeAuth has read
\* the stored profile again, before /auth/me answers.
OnboardingDurable ==
    auth.onboarded /\ call.fn = "none"
        /\ auth.op \in {"completeOnboarding", "initializeAuth"}
        => /\ onboardingCompleted(storage.user)
           /\ onboardingCompleted(ParseUser(cookies.user))
           /\ onboardingCompleted(auth.user)

----------------------------------------------------------------------------
(* Properties of concurrent refreshes (SpecRotation).                      *)

\* no exchange is in flight, two were in flight at once, and one succeeded
ExchangesSettled ==
    /\ \A c \in Clients : ~InFlight(c)
    /\ backend.overlap
    /\ backend.issued > 0

Exchanged(c) == backend.ex[c].pc = "done"

\* C27: when refresh exchanges of one session were in flight at once against
\* a rotating backend and at least one succeeded, then however the answers
\* were ordered, the cookies and localStorage of the call sites that took
\* part end holding the pair of the most recent successful exchange: none
\* is left cleared or with a refresh token the backend no longer accepts.
ConcurrentRefreshTolerated ==
    ExchangesSettled
        => /\ (Exchanged("mw1") \/ Exchanged("mw2") \/ Exchanged("bg"))
                  => /\ cookies.refresh = backend.valid
                     /\ cookies.access = backend.access
           /\ Exchanged("api")
                  => /\ storage.refresh = backend.valid
                     /\ storage.access = backend.access

----------------------------------------------------------------------------
(* Properties of navigation (SpecNavFair).                                 *)

\* C28: from every cookie jar and every pathname, following the redirects
\* the middleware answers, each with its cookie deletions and sets applied,
\* leads to a pass-through; so it does when the page was requested after
\* ApiClient or AuthProvider cleared their identity state, or by
\* RouteProtection.
NoRedirectLoop ==
    (mw.pc # "idle") ~> (mw.pc = "done" /\ resp.kind = "next")

\* C23: every API route that forwards to the backend answers 401 without
\* calling the backend when the Authorization header is missing, lacks the
\* 'Bearer ' prefix or decodes to no tenant_id, and the tenant id of its
\* backend call is never taken from the request body or query string.
RoutesValidateBearer ==
    call.fn \in Routes
        => /\ Unauthorized(call.header)
                  => call.answer.status = "401" /\ ~call.answer.backendCalled
           /\ call.answer.backendCalled => call.answer.tenant # "request"

\* C22: getEncryptionService throws at first use when ENCRYPTION_KEY is
\* absent or empty and leaves no instance cached, so that a later call reads
\* the environment again; once a call has succeeded, every later call returns
\* that same instance with that same key, whatever the environment holds by
\* then.
SingletonLifecycle ==
    call.fn \in {"getEncryptionService", "encryptString"}
        => /\ (~call.before.made /\ ~JsTruthy(call.env))
                  => /\ call.threw
                     /\ encryptionService = NoService
           /\ (~call.before.made /\ JsTruthy(call.env))
                  => /\ call.instance.made
                     /\ call.instance.secret = call.env.value
                     /\ call.instance.keyBuffer = prepareKey(call.env.value)
                     /\ encryptionService = call.instance
           /\ call.before.made
                  => /\ call.instance = call.before
                     /\ encryptionService = call.before
                     /\ (call.fn = "getEncryptionService" => ~call.threw)

\* a first call threw, the variable was then set and a call succeeded, the
\* variable was changed again and a further call returned the cached instance
SingletonLifecycleWitness ==
    /\ call.fn = "getEncryptionService"
    /\ call.failedBefore
    /\ call.before.made
    /\ JsTruthy(call.env) /\ call.env.value # call.before.secret
    /\ call.instance = call.before
    /\ call.instance.serial = 1

----------------------------------------------------------------------------
(* Properties of the middleware (SpecMw).  "Expired" is what isTokenExpired *)
(* answers at the clock value the request was handled at.                   *)

MwDone == mw.pc = "done"

AccessMissing ==
    ~Truthy(mw.accessToken) \/ isTokenExpired(mw.accessToken, mw.at)
RefreshMissing ==
    ~Truthy(mw.refreshToken) \/ isTokenExpired(mw.refreshToken, mw.at)
AccessValid == Truthy(mw.accessToken) /\ ~isTokenExpired(mw.accessToken, mw.at)

RedirectedTo(to) == resp.kind = "redirect" /\ resp.to = to

\* the response passes through and sets the two cookies to the answer's pair
PassesWithPair(answer) ==
    /\ resp.kind = "next"
    /\ resp.setAccess = answer.access /\ resp.accessMaxAge = 1800
    /\ resp.setRefresh = answer.refresh /\ resp.refreshMaxAge = 2592000
    /\ resp.deleted = {}
    /\ cookies.access = answer.access /\ cookies.refresh = answer.refresh

\* C5 as stated: in the refreshable case one refresh call is made, and every
\* 2xx answer gives a pass-through that sets the cookies to the returned pair.
RefreshableAny2xxPasses ==
    (mw.pc # "idle" /\ ~Skipped(mw.pathname) /\ AccessMissing /\ ~RefreshMissing)
        => /\ mw.refreshCalls = 1
           /\ (MwDone /\ mw.answer.kind \in {"ok", "okUnparsable"})
                  => PassesWithPair(mw.answer)

\* C5 amended: in the refreshable case one refresh call is made, and a 2xx
\* answer whose body parses to the pair gives a pass-through to the requested
\* route that sets the access cookie (30 minutes) and the refresh cookie
\* (30 days) to exactly that pair.
RefreshablePairPasses ==
    (mw.pc # "idle" /\ ~Skipped(mw.pathname) /\ AccessMissing /\ ~RefreshMissing)
        => /\ mw.refreshCalls = 1
           /\ (MwDone /\ mw.answer.kind = "ok") => PassesWithPair(mw.answer)

RefreshablePairPassesWitness ==
    /\ MwDone /\ mw.pathname = P("dashboard")
    /\ Truthy(mw.accessToken) /\ isTokenExpired(mw.accessToken, mw.at)
    /\ ~RefreshMissing /\ mw.answer.kind = "ok"
    /\ mw.answer.refresh # mw.refreshToken
    /\ resp.kind = "next" /\ cookies.access = mw.answer.access

\* C6: when the awaited refresh answers non-2xx or fails at the network level,
\* the response is a redirect to /signin that deletes the three identity
\* cookies, whatever the pathname.
RefreshFailureRedirects ==
    (MwDone /\ mw.answer.kind \in {"notOk", "networkError"})
        => /\ AccessMissing /\ ~RefreshMissing
           /\ RedirectedTo(P("signin"))
           /\ resp.deleted = IdentityCookies
           /\ cookies = NoStorage

RefreshFailureRedirectsWitness ==
    /\ MwDone /\ mw.answer.kind = "networkError" /\ mw.pathname = P("signin")
    /\ mw.userCookie.kind = "obj"
    /\ RedirectedTo(P("signin"))

\* the request carried no identity cookie and no Authorization header
Anonymous ==
    /\ ~Truthy(mw.accessToken) /\ ~Truthy(mw.refreshToken)
    /\ mw.userCookie.kind = "absent"

ProtectedPath(pathname) ==
    pathname \in protectedRoutes \/ startsWith(pathname, P("dashboard"))

\* C7 as stated: an anonymous request to a protected pathname, or to any
\* pathname starting with /dashboard, is redirected to /signin.
AnonymousProtectedRedirects ==
    (MwDone /\ Anonymous /\ ProtectedPath(mw.pathname))
        => RedirectedTo(P("signin"))

\* C7 amended: an anonymous request to a protected pathname, or to a pathname
\* starting with /dashboard, that the middleware does not skip (it contains
\* no '.') is redirected to /signin, never passed through.
AnonymousProtectedRedirectsUnlessSkipped ==
    (MwDone /\ Anonymous /\ ProtectedPath(mw.pathname) /\ ~Skipped(mw.pathname))
        => RedirectedTo(P("signin"))

AnonymousProtectedRedirectsWitness ==
    /\ MwDone /\ Anonymous /\ mw.pathname = <<"/", "dashboard", "/", "x">>
    /\ RedirectedTo(P("signin"))

AuthenticatedLeavesAuthPages ==
    (MwDone /\ mw.pathname \in authRoutes /\ AccessValid)
        => IF mw.userCookie.kind = "obj" /\ mw.userCookie.casing = "camel"
              /\ mw.userCookie.completed
           THEN RedirectedTo(P("dashboard"))
           ELSE RedirectedTo(P("onboarding"))

AuthenticatedLeavesAuthPagesWitness ==
    /\ MwDone /\ mw.pathname = P("signup") /\ AccessValid
    /\ mw.userCookie.kind = "garbage"
    /\ RedirectedTo(P("onboarding"))

\* C10: a request to /onboarding with a present, unexpired access token and a
\* cached user whose onboardingCompleted is true is redirected to /dashboard.
OnboardedLeavesOnboarding ==
    (/\ MwDone /\ mw.pathname = P("onboarding") /\ AccessValid
     /\ mw.userCookie.kind = "obj" /\ mw.userCookie.casing = "camel"
     /\ mw.userCookie.completed)
        => RedirectedTo(P("dashboard"))

OnboardedLeavesOnboardingWitness ==
    /\ MwDone /\ mw.pathname = P("onboarding") /\ AccessValid
    /\ mw.userCookie =
           [kind |-> "obj", casing |-> "camel", completed |-> TRUE, snake |-> FALSE, id |-> "u1"]
    /\ RedirectedTo(P("dashboard"))

\* C11: a request that the middleware does not skip, made with a present,
\* unexpired access token, whose cached user does not have
\* onboardingCompleted true (false, cookie missing or unparsable) and whose
\* pathname is neither /onboarding nor a public route, is redirected to
\* /onboarding.
OnboardingEnforced ==
    (/\ MwDone /\ ~Skipped(mw.pathname) /\ AccessValid
     /\ ~onboardingCompleted(ParseUser(mw.userCookie))
     /\ mw.pathname # P("onboarding") /\ mw.pathname \notin publicRoutes)
        => RedirectedTo(P("onboarding"))

\* C12: every request the middleware has handled ended with a pass-through
\* or a redirect; no exception left the middleware function.
MiddlewareNeverThrows ==
    MwDone => resp.kind \in {"next", "redirect"}

\* the request just handled reached the end of the middleware with an
\* access token near expiry and a valid refresh token, and its headers could
\* be set (C12 has the request whose headers cannot)
NearExpiryCase ==
    /\ MwDone /\ mw.refreshCalls = 0
    /\ resp.idHeaders
    /\ FiresBackgroundRefresh(mw.accessToken, mw.isAuthenticated,
                              mw.hasValidRefreshToken, mw.at)

\* the background refresh returns in this step
BackgroundRefreshReturns == mw.bg /\ ~mw'.bg

\* a request in the near-expiry case is handled in this step
NearExpiryRequest ==
    /\ mw.pc # "refreshing" /\ mw' # mw /\ ~BackgroundRefreshReturns
    /\ NearExpiryCase'

\* the background refresh returns in this step, with a pair
BackgroundRefreshSucceeds ==
    /\ BackgroundRefreshReturns
    /\ call'.fn = "backgroundRefresh" /\ call'.result = "pair"

\* C26: with the access token within the threshold of its expiry and a valid
\* refresh token, the request is answered by a pass-through carrying
\* x-user-id / x-tenant-id while a refresh is in flight, and when that
\* refresh succeeds the cookies future requests are made with hold the pair
\* it obtained.
BackgroundRefreshTakesEffect ==
    [][/\ NearExpiryRequest => (mw'.bg /\ resp'.kind = "next" /\ resp'.idHeaders)
       /\ BackgroundRefreshSucceeds
              => /\ cookies'.access = call'.accessToken
                 /\ cookies'.refresh = call'.refreshToken]_vars

----------------------------------------------------------------------------
(* Properties of ApiClient.request (SpecApi).                              *)

ApiDone == api.pc = "done"

Json(status) == [status |-> status, json |-> TRUE]

\* the first send was answered 401 and the retry 200, both with JSON bodies
Recovered401 ==
    ApiDone /\ api.requireAuth /\ api.first = Json(401) /\ api.retry = Json(200)

\* C2 as stated: when the first send is answered 401 and the second 200, one
\* call to the refresh endpoint and one retry are made and the result is a
\* success, whatever the token state the request started from.
SingleRefreshOnRecovered401 ==
    Recovered401
        => api.refreshCalls = 1 /\ api.sends = 2 /\ api.result = "success"

\* C2 amended: when the first send is answered 401 and the second 200, one
\* retry is made, the result is a success carrying the data, and one refresh
\* call is made in answer to the 401; each header build that finds the stored
\* access token expired makes one more, so the request makes one refresh call
\* when no header build found an expired token, and at least two (at most
\* three) when the stored access token was expired before the first send.
OneRetryOnRecovered401 ==
    Recovered401
        => /\ api.sends = 2
           /\ api.result = "success" /\ api.hasData
           /\ api.refreshed401 = "ok"
           /\ api.refreshCalls = 1 + api.headerRefreshCalls
           /\ api.refreshCalls <= 3
           /\ (~api.startExpired /\ ~api.retryExpired) => api.refreshCalls = 1
           /\ api.startExpired => api.refreshCalls >= 2

OneRetryOnRecovered401Witness ==
    /\ Recovered401 /\ api.startExpired
    /\ api.refreshCalls = 2 /\ api.sends = 2 /\ api.result = "success"

\* the refresh made in answer to the 401 failed
Refresh401Failed ==
    api.refreshed401 \in {"noToken", "okUnparsable", "notOk", "networkError"}

\* the retry was answered with a status that is not 2xx
RetryNot2xx == api.retry.status > 0 /\ ~Ok(api.retry)

\* C3: a request makes at most two sends; when the first send is answered 401
\* and the refresh fails or the retry is not 2xx, the three identity keys are
\* cleared, the browser is sent to /signin and the result is a failure.
FailedRetrySignsOut ==
    /\ api.sends <= 2
    /\ (/\ ApiDone /\ api.requireAuth /\ api.first.status = 401
        /\ (Refresh401Failed \/ RetryNot2xx))
           => /\ storage = NoStorage
              /\ api.navigated
              /\ api.result = "failure"

\* the two channels hold the same access token and the same refresh token
ChannelsAgree ==
    cookies.access = storage.access /\ cookies.refresh = storage.refresh

\* C13: once a refresh has succeeded, in ApiClient.getHeaders before the
\* first send or in the middleware, localStorage and the cookies both hold
\* the new access token and the new refresh token.
RefreshUpdatesBothChannels ==
    /\ (api.pc = "send" /\ api.headerRefreshCalls = 1 /\ Truthy(api.authorization))
           => (storage.access = api.authorization /\ ChannelsAgree)
    /\ (MwDone /\ mw.answer.kind = "ok")
           => (cookies.access = mw.answer.access /\ ChannelsAgree)

\* C14: once the ApiClient has declared an authentication failure and sent
\* the browser to /signin, the three keys are gone from localStorage and
\* from the cookies, and the middleware passes the load of /signin through.
SignOutClearsBothChannels ==
    api.navigated
        => /\ storage = NoStorage /\ cookies = NoStorage
           /\ MwDone => resp.kind = "next"

\* C15: a refresh call never throws: whatever the backend answers it yields
\* the pair the answer carries or the absent result (null, false), and it
\* yields the absent result on every non-2xx answer and every network
\* failure.
RefreshNeverThrows ==
    call.fn \in {"refreshTokens", "refreshAccessToken"}
        => /\ call.result \in {"pair", "absent"}
           /\ call.result = "pair"
                  => /\ call.fetched /\ call.answer.kind = "ok"
                     /\ call.accessToken = call.answer.access
                     /\ call.refreshToken = call.answer.refresh
           /\ call.answer.kind \in {"notOk", "networkError"}
                  => call.result = "absent"

RefreshNeverThrowsWitness ==
    /\ call.fn = "refreshAccessToken" /\ call.fetched
    /\ call.answer.kind = "okUnparsable"
    /\ call.result = "absent" /\ storage = NoStorage

\* C16: when the stored access token is expired as a request starts, the
\* headers are built with one call of refreshAccessToken, which makes at most
\* one call to the refresh endpoint; when it succeeds the first send carries
\* the new access token, now stored, as its bearer token, and when it fails
\* (no usable refresh token, or any other answer) the three keys are cleared
\* and the first send carries no Authorization header.
PreSendRefresh ==
    (api.pc = "send" /\ api.startExpired)
        => /\ api.sends = 1
           /\ api.headerRefreshCalls <= 1
           /\ api.refreshCalls = api.headerRefreshCalls
           /\ api.headerRefreshCalls = 1 <=> api.headerAnswer.kind # "none"
           /\ IF api.headerAnswer.kind = "ok"
              THEN /\ api.authorization = api.headerAnswer.access
                   /\ storage.access = api.headerAnswer.access
                   /\ storage.refresh = api.headerAnswer.refresh
              ELSE /\ api.authorization = Absent
                   /\ storage = NoStorage

PreSendRefreshWitness ==
    /\ api.pc = "send" /\ api.startExpired
    /\ api.headerAnswer.kind = "ok"
    /\ api.authorization = NumTok(MaxExp * ClockStep)

\* C30: a request the ApiClient has just sent carries X-User-ID / X-Tenant-ID
\* only when a cached profile is in storage at that time; after a pre-send
\* refresh failed and cleared the identity state, the request that follows
\* carries neither header.
TenantHeadersFollowIdentity ==
    api.pc \in {"send", "retrySend"}
        => (api.tenantHeaders => ParseUser(storage.user).kind = "obj")

\* C4: request never throws; without a stored access token a requireAuth
\* request ends in a failure result with no network call, and every non-2xx
\* answer that is not a recovered 401 ends in a failure result carrying the
\* backend payload when it parses.
RequestNeverThrows ==
    ApiDone
        => /\ api.result \in {"success", "failure"}
           /\ api.first = NoData => (api.result = "failure" /\ api.sends = 0)
           /\ (api.first.status > 0 /\ ~Ok(api.first) /\ api.retry # Json(200))
                  => (api.result = "failure" /\ (api.first.json => api.hasData))

====
